---- MODULE Spec2Model ----
(***************************************************************************)
(* NewsFrontier: topic matching and two-stage event clustering.            *)
(*                                                                         *)
(* Scores are cosine similarities in hundredths (0.62 is 62).  Embeddings  *)
(* are small integer vectors whose norms are integers, so that every       *)
(* cosine similarity of the model is an exact number of hundredths.        *)
(* Python's None and the empty list are both falsy: both are NoVec.        *)
(* A Python dict is a record; a key that may be missing is tested with     *)
(* DOMAIN.                                                                 *)
(***************************************************************************)
EXTENDS Integers, Sequences, FiniteSets, TLC

VARIABLES
    \* backend database
    topics,              \* table topics, in creation order (id = position)
    events,              \* table events, in creation order (id = position)
    article_topics,      \* table article_topics, rows in insertion order
    article_events,      \* table article_events, rows in insertion order
    articles,            \* rss_items_metadata with its derivative, by article id
    settings,            \* table system_settings
    triggers,            \* create_topic's background threads that have not yet posted
    \* AIPostProcessService
    cached_topics,       \* self.cached_topics
    similarity_threshold,\* self.similarity_threshold
    cluster_threshold,   \* self.cluster_threshold (ClusteringService.cluster_threshold)
    prompts,             \* self.prompts (PromptManager.prompt_cache)
    \* the daemon thread: run_processing_cycle and process_article
    pc,                  \* where the daemon thread is
    pending,             \* pending_articles still to be processed in this cycle
    cur,                 \* process_article's locals for the article in hand
    cycle,               \* how many articles this cycle fetched and has processed
    \* the API thread: process_new_topic and backfill_existing_articles
    bf,                  \* backfill_existing_articles' locals
    started,             \* the topic ids process_new_topic was invoked with
    api,                 \* process_articles_api's run_processing_cycle in the API thread
    \* the process
    running,             \* self.running
    \* observation
    faults,              \* the transient failures injected so far
    lastCall             \* the last detect_or_create_cluster invocation: inputs and outcome

dbVars == <<topics, events, article_topics, article_events, articles, settings, triggers>>
svcVars == <<cached_topics, similarity_threshold, cluster_threshold, prompts>>
liveVars == <<pc, pending, cur, cycle>>
bfVars == <<bf, started>>
obsVars == <<faults, lastCall>>
ctlVars == <<running, api>>

vars == <<dbVars, svcVars, liveVars, bfVars, obsVars, ctlVars>>

----------------------------------------------------------------------------
(* Bounds *)

MaxEvents == 2
MaxTopics == 2
MaxFaults == 1

----------------------------------------------------------------------------
(* Values *)

NoVec == <<>>
PyNone == [none |-> TRUE]
IsNone(x) == "none" \in DOMAIN x

Truthy(v) == Len(v) > 0

\* The embedding provider's vectors: of article titles, of article summaries, of
\* events (title and event_description) and of topic names.
TitleVecs == { <<1, 0>> }
SummaryVecs == { <<0, 1>> }
EventVecs == { <<3, 4>>, <<4, 3>>, <<-1, 0>> }
TopicIds == 1..MaxTopics
ClusterTopicIds == {1, 2}
UserIds == {1}
ClusterThresholds == {0, 70}

\* What the text-generation provider can answer to the cluster_detection prompt:
\* nothing (the call failed), text that is no JSON, JSON that is no object, an
\* object without a (non-empty) title, without description, without
\* event_description, or a complete object.
Responses ==
    { "none", "invalid_json", "not_object", "no_title",
      "no_description", "no_event_description", "ok" }

\* The collaborators' behaviour during one invocation.  create_ok matters only
\* when the answer leads to a create_event call.
Envs ==
    { e \in [fetch_ok : BOOLEAN, response : Responses, create_ok : BOOLEAN,
             embedding : EventVecs \cup {NoVec}] :
        /\ e.response \notin {"no_description", "no_event_description", "ok"}
              => e.create_ok /\ e.embedding = NoVec
        /\ ~e.create_ok => e.embedding = NoVec
        /\ e.response = "no_event_description" => e.embedding = NoVec }

----------------------------------------------------------------------------
(* Cosine similarity *)

Dot(a, b) ==
    LET S[i \in 0..Len(a)] == IF i = 0 THEN 0 ELSE S[i - 1] + a[i] * b[i]
    IN  S[Len(a)]

Norm(a) == CHOOSE n \in 0..5 : n * n = Dot(a, a)

\* sklearn.metrics.pairwise.cosine_similarity on two row vectors of one dimension.
SkCosine(a, b) ==
    LET na == IF Norm(a) = 0 THEN 1 ELSE Norm(a)
        nb == IF Norm(b) = 0 THEN 1 ELSE Norm(b)
    IN  (100 * Dot(a, b)) \div (na * nb)

Max(x, y) == IF x >= y THEN x ELSE y

ScoreOf_TitleFirst(title_embedding, summary_embedding, emb) ==
    IF Truthy(title_embedding) THEN SkCosine(title_embedding, emb)
    ELSE SkCosine(summary_embedding, emb)

\* The maximum of the similarities of the available article vectors to a vector.
ScoreOf(title_embedding, summary_embedding, emb) ==
    IF Truthy(title_embedding) /\ Truthy(summary_embedding)
    THEN Max(SkCosine(title_embedding, emb), SkCosine(summary_embedding, emb))
    ELSE IF Truthy(title_embedding) THEN SkCosine(title_embedding, emb)
    ELSE SkCosine(summary_embedding, emb)

\* SimilarityCalculator.calculate_cosine_similarity: the ValueError of a dimension
\* mismatch is raised and caught in the same function, which then returns 0.0.
CalculateCosineSimilarity(embedding1, embedding2) ==
    IF Len(embedding1) # Len(embedding2) THEN 0 ELSE SkCosine(embedding1, embedding2)

----------------------------------------------------------------------------
(* Backend: events *)

Reverse(s) == [i \in 1..Len(s) |-> s[Len(s) + 1 - i]]

GetEventsInternal_Unfiltered(evTable, user_id, topic_id) == Reverse(evTable)

\* GET /api/internal/events: the events of (user_id, topic_id), newest first.
GetEventsInternal(evTable, user_id, topic_id) ==
    Reverse(SelectSeq(evTable, LAMBDA e : e.user_id = user_id /\ e.topic_id = topic_id))

\* POST /api/internal/events: the row stored for a new event.  The backend embeds
\* the event only when an event_description was sent, and stores no vector when
\* the embedding call fails (embedding is then NoVec).
CreateEventInternal(evTable, user_id, topic_id, has_event_description, embedding) ==
    [ id |-> Len(evTable) + 1,
      user_id |-> user_id,
      topic_id |-> topic_id,
      event_embedding |-> IF has_event_description THEN embedding ELSE NoVec ]

----------------------------------------------------------------------------
(* The reasoning call's answer, as json.loads and dict.get see it *)

IsValidJson(response) == response \notin {"none", "invalid_json"}
IsJsonObject(response) == response \notin {"none", "invalid_json", "not_object"}
HasTitle(response) == response \in {"no_description", "no_event_description", "ok"}
HasDescription(response) == response \in {"no_event_description", "ok", "no_title"}
HasEventDescription(response) == response \in {"no_description", "ok", "no_title"}

PromptsGet(prompt_cache, prompt_type) ==
    IF prompt_type \in DOMAIN prompt_cache THEN prompt_cache[prompt_type] ELSE ""

\* The outcome of one invocation: what it returned (a dict or None), whether an
\* exception left it, how often the reasoning capability was called, the rows
\* it had the backend create, and whether the numeric stage found a match.
Outcome(result, raised, llm_calls, created, found) ==
    [ result |-> result, raised |-> raised, llm_calls |-> llm_calls,
      created |-> created, found |-> found ]

----------------------------------------------------------------------------
(* AIPostProcessService.detect_or_create_cluster (postprocess/main.py) *)

\* The loop over the existing events: the best similarity, starting from 0.0 and
\* replaced only by a strictly larger one.  match is a position in existing, 0 for
\* None.  An event whose similarity cannot be computed (dimension mismatch) is
\* skipped by the loop's inner try/except.
BestMatch(existing, title_embedding, summary_embedding) ==
    LET B[i \in 0..Len(existing)] ==
            IF i = 0 THEN [match |-> 0, sim |-> 0]
            ELSE LET emb == existing[i].event_embedding
                     prev == B[i - 1]
                 IN  IF ~Truthy(emb) THEN prev
                     ELSE IF \/ Truthy(title_embedding) /\ Len(title_embedding) # Len(emb)
                             \/ Truthy(summary_embedding) /\ Len(summary_embedding) # Len(emb)
                          THEN prev
                     ELSE LET title_similarity ==
                                  IF Truthy(title_embedding)
                                  THEN SkCosine(title_embedding, emb) ELSE 0
                              summary_similarity ==
                                  IF Truthy(summary_embedding)
                                  THEN SkCosine(summary_embedding, emb) ELSE 0
                              similarity == Max(title_similarity, summary_similarity)
                          IN  IF similarity > prev.sim
                              THEN [match |-> i, sim |-> similarity]
                              ELSE prev
    IN  B[Len(existing)]

ReasoningFallback_Score80(evTable, user_id, topic_id, prompt_template, env) ==
    IF prompt_template = "" THEN Outcome(PyNone, FALSE, 0, <<>>, FALSE)
    ELSE IF ~IsJsonObject(env.response) THEN Outcome(PyNone, FALSE, 1, <<>>, FALSE)
    ELSE IF ~HasTitle(env.response) THEN Outcome(PyNone, FALSE, 1, <<>>, FALSE)
    ELSE IF ~env.create_ok THEN Outcome(PyNone, FALSE, 1, <<>>, FALSE)
    ELSE LET new_event == CreateEventInternal(evTable, user_id, topic_id,
                              HasEventDescription(env.response), env.embedding)
         IN  Outcome([relevance_score |-> 80] @@ new_event, FALSE, 1, <<new_event>>, FALSE)

\* Lines 741-862: the reasoning fallback.
ReasoningFallback(evTable, user_id, topic_id, prompt_template, env) ==
    IF prompt_template = "" THEN Outcome(PyNone, FALSE, 0, <<>>, FALSE)
    ELSE IF env.response = "none" THEN Outcome(PyNone, FALSE, 1, <<>>, FALSE)
    ELSE IF ~IsValidJson(env.response) THEN Outcome(PyNone, FALSE, 1, <<>>, FALSE)
    ELSE IF ~IsJsonObject(env.response) THEN Outcome(PyNone, FALSE, 1, <<>>, FALSE)
    ELSE IF ~HasTitle(env.response) THEN Outcome(PyNone, FALSE, 1, <<>>, FALSE)
    ELSE IF ~env.create_ok THEN Outcome(PyNone, FALSE, 1, <<>>, FALSE)
    ELSE LET new_event == CreateEventInternal(evTable, user_id, topic_id,
                              HasEventDescription(env.response), env.embedding)
         IN  Outcome([relevance_score |-> 100] @@ new_event, FALSE, 1, <<new_event>>, FALSE)

DetectOrCreateCluster_FallThrough(evTable, user_id, topic_id, title_embedding, summary_embedding, threshold, prompt_template, env) ==
    LET existing == IF env.fetch_ok
                    THEN GetEventsInternal(evTable, user_id, topic_id) ELSE <<>>
        best == BestMatch(existing, title_embedding, summary_embedding)
        found == /\ Len(existing) > 0
                 /\ Truthy(title_embedding) \/ Truthy(summary_embedding)
                 /\ best.match # 0 /\ best.sim >= threshold
    IN  [ReasoningFallback(evTable, user_id, topic_id, prompt_template, env)
            EXCEPT !.found = found]

DetectOrCreateCluster(evTable, user_id, topic_id, title_embedding, summary_embedding, threshold, prompt_template, env) ==
    LET existing == IF env.fetch_ok
                    THEN GetEventsInternal(evTable, user_id, topic_id) ELSE <<>>
        best == BestMatch(existing, title_embedding, summary_embedding)
        found == /\ Len(existing) > 0
                 /\ Truthy(title_embedding) \/ Truthy(summary_embedding)
                 /\ best.match # 0 /\ best.sim >= threshold
    IN  IF found
        THEN Outcome([relevance_score |-> best.sim] @@ existing[best.match],
                     FALSE, 0, <<>>, TRUE)
        ELSE ReasoningFallback(evTable, user_id, topic_id, prompt_template, env)

----------------------------------------------------------------------------
(* ClusteringService (postprocess/clustering_service.py) with                *)
(* SimilarityCalculator.find_similar_events (postprocess/embedding_generator.py) *)

\* SimilarityCalculator.find_similar_events: the best event, carrying
\* similarity_score, or None.
FindSimilarEvents(article_title_embedding, article_summary_embedding, evs, threshold) ==
    IF Len(evs) = 0 \/ (~Truthy(article_title_embedding) /\ ~Truthy(article_summary_embedding))
    THEN PyNone
    ELSE
    LET B[i \in 0..Len(evs)] ==
            IF i = 0 THEN [match |-> 0, sim |-> 0]
            ELSE LET emb == evs[i].event_embedding
                     prev == B[i - 1]
                 IN  IF ~Truthy(emb) THEN prev
                     ELSE LET title_similarity ==
                                  IF Truthy(article_title_embedding)
                                  THEN CalculateCosineSimilarity(article_title_embedding, emb)
                                  ELSE 0
                              summary_similarity ==
                                  IF Truthy(article_summary_embedding)
                                  THEN CalculateCosineSimilarity(article_summary_embedding, emb)
                                  ELSE 0
                              max_similarity == Max(title_similarity, summary_similarity)
                          IN  IF max_similarity > prev.sim
                              THEN [match |-> i, sim |-> max_similarity]
                              ELSE prev
        best == B[Len(evs)]
    IN  IF best.match # 0 /\ best.sim >= threshold
        THEN [similarity_score |-> best.sim] @@ evs[best.match]
        ELSE PyNone

\* ClusteringService._create_new_event_cluster: the created event or None.
CreateNewEventCluster(evTable, user_id, topic_id, env) ==
    IF ~IsJsonObject(env.response) THEN <<>>
    ELSE IF ~HasTitle(env.response) THEN <<>>
    ELSE IF ~env.create_ok THEN <<>>
    ELSE << CreateEventInternal(evTable, user_id, topic_id,
                                HasEventDescription(env.response), env.embedding) >>

\* ClusteringService._analyze_clustering_with_llm.  A missing prompt raises
\* ValueError, which this function re-raises; json.JSONDecodeError is a
\* ValueError too and leaves through the same clause.
AnalyzeClusteringWithLlm(evTable, user_id, topic_id, prompt_cache, env) ==
    IF PromptsGet(prompt_cache, "cluster_detection") = ""
    THEN Outcome(PyNone, TRUE, 0, <<>>, FALSE)
    ELSE IF env.response = "none" THEN Outcome(PyNone, FALSE, 1, <<>>, FALSE)
    ELSE IF ~IsValidJson(env.response) THEN Outcome(PyNone, TRUE, 1, <<>>, FALSE)
    ELSE LET created == CreateNewEventCluster(evTable, user_id, topic_id, env)
         IN  IF created = <<>> THEN Outcome(PyNone, FALSE, 1, <<>>, FALSE)
             ELSE Outcome([relevance_score |-> 100] @@ created[1], FALSE, 1, created, FALSE)

\* ClusteringService.detect_or_create_cluster: every exception of the body is
\* caught by the outer handler, which returns None.
ServiceDetectOrCreateCluster(evTable, user_id, topic_id, title_embedding, summary_embedding, threshold, prompt_cache, env) ==
    LET existing_events == IF env.fetch_ok
                           THEN GetEventsInternal(evTable, user_id, topic_id) ELSE <<>>
        similar_event == FindSimilarEvents(title_embedding, summary_embedding,
                                           existing_events, threshold)
        stage1 == /\ Len(existing_events) > 0
                  /\ Truthy(title_embedding) \/ Truthy(summary_embedding)
    IN  IF stage1 /\ ~IsNone(similar_event)
        THEN Outcome(similar_event, FALSE, 0, <<>>, TRUE)
        ELSE LET r == AnalyzeClusteringWithLlm(evTable, user_id, topic_id, prompt_cache, env)
             IN  IF r.raised THEN Outcome(PyNone, FALSE, r.llm_calls, <<>>, FALSE) ELSE r

----------------------------------------------------------------------------
(* Articles, topics and settings *)

ArticleIds == {1, 2}
TopicVecs == { <<3, 4>>, <<4, 3>> }
SimilarityThresholds == {70}
\* The vectors the backend's provider gives a new event in the whole system.
SysEventVecs == { <<4, 3>> }
\* The reasoning answers in the whole system (the malformed ones are covered by
\* the clustering invocations on their own).
SysResponses == {"ok", "none", "invalid_json"}

MaxAttempts == 5
DefaultSimilarityThreshold == 30
DefaultClusterThreshold == 70

\* What the providers return for an article when they succeed.
TitleVecOf(a) == <<1, 0>>
SummaryVecOf(a) == <<0, 1>>
\* create_summary needs a content of at least 100 characters.
ContentLong(a) == a = 1

B2N(ok) == IF ok THEN 0 ELSE 1

----------------------------------------------------------------------------
(* Backend: articles, topics, associations *)

\* crud.rss_item.get_pending_processing: pending or failed, fewer than 5 attempts,
\* oldest first.
PendingProcessing(arts) ==
    LET ids == { a \in ArticleIds : /\ arts[a].status \in {"pending", "failed"}
                                    /\ arts[a].processing_attempts < MaxAttempts }
        S[i \in 0..Cardinality(ArticleIds)] ==
            IF i = 0 THEN <<>> ELSE IF i \in ids THEN Append(S[i - 1], i) ELSE S[i - 1]
    IN  S[Cardinality(ArticleIds)]

\* crud.rss_item.get_completed_articles: completed, newest first.
CompletedArticles(arts) ==
    LET n == Cardinality(ArticleIds)
        S[i \in 0..n] ==
            IF i = 0 THEN <<>>
            ELSE IF arts[n + 1 - i].status = "completed" THEN Append(S[i - 1], n + 1 - i)
            ELSE S[i - 1]
    IN  S[n]

\* POST /api/internal/articles/{id}/process: the article row afterwards.  The
\* derivative's summary_embedding is the title embedding; fields sent as None
\* leave an existing derivative's fields as they are.
UpdateArticleProcessingStatus(row, title_embedding, summary, error_message) ==
    IF Truthy(title_embedding) \/ summary
    THEN [row EXCEPT
            !.status = "completed",
            !.derivative =
                IF IsNone(row.derivative)
                THEN [ summary |-> summary, title_embedding |-> title_embedding,
                       summary_embedding |-> title_embedding ]
                ELSE [ summary |-> row.derivative.summary \/ summary,
                       title_embedding |-> IF Truthy(title_embedding) THEN title_embedding
                                           ELSE row.derivative.title_embedding,
                       summary_embedding |-> IF Truthy(title_embedding) THEN title_embedding
                                             ELSE row.derivative.summary_embedding ]]
    ELSE IF error_message
    THEN [row EXCEPT !.status = "failed", !.processing_attempts = @ + 1]
    ELSE row

\* GET /api/internal/article/{id} answers 500 when a derivative's vector is NULL
\* (None has no tolist).
ArticleDetailOk(row) ==
    IsNone(row.derivative) \/ Truthy(row.derivative.title_embedding)

\* GET /api/internal/topics: every topic, with its vector when it has one.
GetAllTopicsInternal(topicTable) == topicTable

\* crud.article_topic.get_by_ids / crud.article_event.get_by_ids
ArticleTopicExists_Never(rows, rss_item_id, topic_id) == FALSE

ArticleTopicExists(rows, rss_item_id, topic_id) ==
    \E k \in 1..Len(rows) : rows[k].rss_item_id = rss_item_id /\ rows[k].topic_id = topic_id

ArticleEventExists(rows, rss_item_id, event_id) ==
    \E k \in 1..Len(rows) : rows[k].rss_item_id = rss_item_id /\ rows[k].event_id = event_id

\* POST /api/internal/article-topics: the table afterwards (unchanged on 409).
CreateArticleTopic(rows, rss_item_id, topic_id, relevance_score) ==
    IF ArticleTopicExists(rows, rss_item_id, topic_id) THEN rows
    ELSE Append(rows, [ rss_item_id |-> rss_item_id, topic_id |-> topic_id,
                        relevance_score |-> relevance_score ])

\* POST /api/internal/article-events: the table afterwards (unchanged on 409).
CreateArticleEventInternal(rows, rss_item_id, event_id, relevance_score) ==
    IF ArticleEventExists(rows, rss_item_id, event_id) THEN rows
    ELSE Append(rows, [ rss_item_id |-> rss_item_id, event_id |-> event_id,
                        relevance_score |-> relevance_score ])

----------------------------------------------------------------------------
(* AIPostProcessService: topic matching and reload *)

InsertDesc_BeforeTies(sorted, x) ==
    LET k == Cardinality({ j \in 1..Len(sorted) :
                             sorted[j].similarity_score > x.similarity_score })
    IN  SubSeq(sorted, 1, k) \o <<x>> \o SubSeq(sorted, k + 1, Len(sorted))

\* list.sort(key=similarity_score, reverse=True): descending and stable.
InsertDesc(sorted, x) ==
    LET k == Cardinality({ j \in 1..Len(sorted) :
                             sorted[j].similarity_score >= x.similarity_score })
    IN  SubSeq(sorted, 1, k) \o <<x>> \o SubSeq(sorted, k + 1, Len(sorted))

SortDesc(seq) ==
    LET S[i \in 0..Len(seq)] == IF i = 0 THEN <<>> ELSE InsertDesc(S[i - 1], seq[i])
    IN  S[Len(seq)]

\* AIPostProcessService.find_similar_topics over the cached topics.
FindSimilarTopics(title_embedding, summary_embedding, existing_topics, threshold) ==
    IF ~Truthy(title_embedding) /\ ~Truthy(summary_embedding) THEN <<>>
    ELSE IF Len(existing_topics) = 0 THEN <<>>
    ELSE IF \E k \in 1..Len(existing_topics) :
               LET v == existing_topics[k].topic_vector
               IN  /\ Truthy(v)
                   /\ \/ Truthy(title_embedding) /\ Len(title_embedding) # Len(v)
                      \/ Truthy(summary_embedding) /\ Len(summary_embedding) # Len(v)
         THEN <<>>
    ELSE
    LET M[i \in 0..Len(existing_topics)] ==
            IF i = 0 THEN <<>>
            ELSE LET topic == existing_topics[i]
                     v == topic.topic_vector
                 IN  IF ~Truthy(v) THEN M[i - 1]
                     ELSE LET final_similarity == ScoreOf(title_embedding, summary_embedding, v)
                              higher_source ==
                                  IF Truthy(title_embedding) /\ Truthy(summary_embedding)
                                  THEN IF SkCosine(title_embedding, v) > SkCosine(summary_embedding, v)
                                       THEN "title" ELSE "summary"
                                  ELSE IF Truthy(title_embedding) THEN "title" ELSE "summary"
                          IN  IF final_similarity >= threshold
                              THEN Append(M[i - 1],
                                          [ similarity_score |-> final_similarity,
                                            similarity_source |-> higher_source ] @@ topic)
                              ELSE M[i - 1]
    IN  SortDesc(M[Len(existing_topics)])

\* reload_prompts, lines 233-247: the prompts after a successful fetch.  Only the
\* keys self.prompts already has are loaded; a blank or missing one gets the
\* built-in default.
ReloadedPrompts(old, sett) ==
    [ k \in DOMAIN old |->
        IF k \in DOMAIN sett
        THEN IF sett[k] # "" THEN sett[k] ELSE "default"
        ELSE IF old[k] = "" THEN "default" ELSE old[k] ]

----------------------------------------------------------------------------
(* The whole system: backend tables, the daemon thread's processing cycles  *)
(* and the API thread's backfill passes                                     *)

NoCall == [impl |-> "none"]

IdleCur ==
    [ article |-> 0, title_embedding |-> NoVec, summary |-> FALSE,
      summary_embedding |-> NoVec, similar_topics |-> <<>>, phase |-> "none",
      i |-> 0, posted |-> <<>>, clustered |-> <<>> ]

IdleApi == [ pc |-> "idle", pending |-> <<>>, cur |-> IdleCur ]

IdleBf ==
    [ pc |-> "idle", topic_id |-> 0, topic_embedding |-> NoVec, user_id |-> 0,
      threshold |-> 0, queue |-> <<>>, article |-> 0, title_embedding |-> NoVec,
      summary_embedding |-> NoVec, scanned |-> <<>> ]

SysInit ==
    /\ topics = <<>>
    /\ article_topics = <<>>
    /\ article_events = <<>>
    /\ articles = [ a \in ArticleIds |->
                      [ status |-> "pending", processing_attempts |-> 0,
                        derivative |-> PyNone ] ]
    /\ settings \in { [ similarity_threshold |-> th, cluster_threshold |-> 70,
                        prompts |-> [ summary_creation |-> "db",
                                      cluster_detection |-> "db" ] ] :
                      th \in SimilarityThresholds }
    /\ triggers = {}
    /\ cached_topics = <<>>
    /\ similarity_threshold = DefaultSimilarityThreshold
    /\ pc = "idle"
    /\ pending = <<>>
    /\ cur = IdleCur
    /\ cycle = [fetched |-> 0, processed |-> 0]
    /\ bf = IdleBf
    /\ started = {}
    /\ faults = 0
    /\ running = TRUE
    /\ api = IdleApi

Init ==
    /\ SysInit
    /\ events = <<>>
    /\ cluster_threshold = DefaultClusterThreshold
    /\ prompts = [summary_creation |-> "", cluster_detection |-> ""]
    /\ lastCall = NoCall

\* A transient failure may be injected only while the budget lasts.
Inject(cost) ==
    /\ faults + cost <= MaxFaults
    /\ faults' = faults + cost

\* run_processing_cycle, line 1008: reload_prompts.  Each of its four GETs may
\* fail; only a failure of the prompts GET reaches the except clause.
ReloadPrompts ==
    /\ pc = "idle"
    /\ \E sim_ok, clu_ok, topics_ok, prompts_ok \in BOOLEAN :
        /\ Inject(B2N(sim_ok) + B2N(clu_ok) + B2N(topics_ok) + B2N(prompts_ok))
        /\ similarity_threshold' = IF sim_ok THEN settings.similarity_threshold
                                   ELSE DefaultSimilarityThreshold
        /\ cluster_threshold' = IF clu_ok THEN settings.cluster_threshold
                                ELSE DefaultClusterThreshold
        /\ cached_topics' = IF topics_ok THEN GetAllTopicsInternal(topics)
                            ELSE cached_topics
        /\ prompts' = IF prompts_ok THEN ReloadedPrompts(prompts, settings.prompts)
                      ELSE [summary_creation |-> "fallback"]
    /\ pc' = "reloaded"
    /\ UNCHANGED <<ctlVars, dbVars, pending, cur, cycle, bfVars, lastCall>>

\* run_processing_cycle, lines 1011-1015: get_pending_articles.
GetPendingArticles ==
    /\ pc = "reloaded"
    /\ \E ok \in BOOLEAN :
        /\ Inject(B2N(ok))
        /\ pending' = IF ok THEN PendingProcessing(articles) ELSE <<>>
    /\ pc' = IF pending' = <<>> THEN "idle" ELSE "loop"
    /\ cycle' = [fetched |-> Len(pending'), processed |-> 0]
    /\ cur' = IdleCur
    /\ UNCHANGED <<ctlVars, dbVars, svcVars, bfVars, lastCall>>

\* run_processing_cycle, lines 1021-1027, and process_article, lines 907-942:
\* the next article is taken only while running holds; then the embeddings, the
\* summary, the update of the article and the topic matching.
ProcessArticle ==
    /\ pc = "loop"
    /\ pending # <<>>
    /\ cur.phase \in {"none", "done"}
    /\ running
    /\ \E te_ok, sum_ok, se_ok, upd_ok \in BOOLEAN :
        LET a == Head(pending)
            can_summarise == ContentLong(a) /\ PromptsGet(prompts, "summary_creation") # ""
            title_embedding == IF te_ok THEN TitleVecOf(a) ELSE NoVec
            summary == can_summarise /\ sum_ok
            summary_embedding == IF summary /\ se_ok THEN SummaryVecOf(a) ELSE NoVec
            all_failed == ~Truthy(title_embedding) /\ ~summary
            similar_topics ==
                IF all_failed THEN <<>>
                ELSE FindSimilarTopics(title_embedding, summary_embedding,
                                       cached_topics, similarity_threshold)
        IN  /\ Inject(B2N(te_ok) + B2N(sum_ok) + B2N(se_ok) + B2N(upd_ok))
            /\ ~can_summarise => sum_ok
            /\ ~summary => se_ok
            /\ articles' = IF upd_ok
                           THEN [articles EXCEPT ![a] =
                                   UpdateArticleProcessingStatus(@, title_embedding,
                                                                 summary, all_failed)]
                           ELSE articles
            /\ cur' = [ article |-> a, title_embedding |-> title_embedding,
                        summary |-> summary, summary_embedding |-> summary_embedding,
                        similar_topics |-> similar_topics,
                        phase |-> IF similar_topics = <<>> THEN "done" ELSE "assoc",
                        i |-> 1, posted |-> <<>>, clustered |-> <<>> ]
    /\ pending' = Tail(pending)
    /\ cycle' = [cycle EXCEPT !.processed = @ + 1]
    /\ UNCHANGED <<ctlVars, topics, events, article_topics, article_events, settings, triggers,
                   svcVars, pc, bfVars, lastCall>>

\* The answer of a POST that creates an association.
PostStatus(ok, exists) ==
    IF ~ok THEN "failed" ELSE IF exists THEN "conflict" ELSE "created"

\* process_article, lines 947-950: one pass of the association loop.
CreateAssociation ==
    /\ cur.phase = "assoc"
    /\ \E ok \in BOOLEAN :
        LET topic == cur.similar_topics[cur.i]
            last == cur.i = Len(cur.similar_topics)
        IN  /\ Inject(B2N(ok))
            /\ article_topics' =
                   IF ok THEN CreateArticleTopic(article_topics, cur.article, topic.id,
                                                 topic.similarity_score)
                   ELSE article_topics
            /\ cur' = [cur EXCEPT
                         !.posted = Append(@, PostStatus(ok,
                                        ArticleTopicExists(article_topics, cur.article,
                                                           topic.id))),
                         !.i = IF last THEN 1 ELSE @ + 1,
                         !.phase = IF ~last THEN "assoc"
                                   ELSE IF cur.summary THEN "cluster" ELSE "done"]
    /\ UNCHANGED <<ctlVars, topics, events, article_events, articles, settings, triggers,
                   svcVars, pc, pending, cycle, bfVars, lastCall>>

\* What the collaborators of one clustering attempt do: the events GET, the
\* reasoning call, the events POST with the backend's embedding of the new event,
\* and the article-events POST.
SysEnvs ==
    [ fetch_ok : BOOLEAN, response : SysResponses, create_ok : BOOLEAN,
      embedding : SysEventVecs \cup {NoVec}, assoc_ok : BOOLEAN ]

EnvCost(env) ==
    B2N(env.fetch_ok) + B2N(env.response = "ok") + B2N(env.create_ok)
      + B2N(Truthy(env.embedding)) + B2N(env.assoc_ok)

\* The collaborators that are not called in an attempt are not failing in it.
EnvFits(env, out) ==
    /\ out.llm_calls = 0 => env.response = "ok"
    /\ env.response # "ok" => env.create_ok
    /\ (~env.create_ok \/ out.created = <<>>) => Truthy(env.embedding)
    /\ IsNone(out.result) => env.assoc_ok

AttemptRecord(impl, article, topic_id, env, out, rows) ==
    [ impl |-> impl, article |-> article, topic_id |-> topic_id,
      fetch_ok |-> env.fetch_ok, response |-> env.response,
      create_ok |-> env.create_ok, assoc_ok |-> env.assoc_ok,
      llm_calls |-> out.llm_calls, found |-> out.found,
      result_none |-> IsNone(out.result),
      status |-> IF IsNone(out.result) THEN "none"
                 ELSE PostStatus(env.assoc_ok,
                          ArticleEventExists(article_events, article, out.result.id)),
      events_before |-> Len(events), events_after |-> Len(events) + Len(out.created),
      rows_before |-> Len(article_events), rows_after |-> Len(rows) ]

\* The article-events table after the attempt's create_article_event_association.
AssociateResult(out, article, env) ==
    IF IsNone(out.result) \/ ~env.assoc_ok THEN article_events
    ELSE CreateArticleEventInternal(article_events, article, out.result.id,
                                    out.result.relevance_score)

\* process_article, lines 954-988: where the clustering loop goes after an attempt.
AfterCluster_StopOnFailure(c, out) ==
    IF c.i = Len(c.similar_topics) \/ IsNone(out.result)
    THEN [c EXCEPT !.phase = "done", !.clustered = Append(@, ~IsNone(out.result))]
    ELSE [c EXCEPT !.i = @ + 1, !.clustered = Append(@, ~IsNone(out.result))]

AfterCluster(c, out) ==
    IF c.i = Len(c.similar_topics)
    THEN [c EXCEPT !.phase = "done", !.clustered = Append(@, ~IsNone(out.result))]
    ELSE [c EXCEPT !.i = @ + 1, !.clustered = Append(@, ~IsNone(out.result))]

\* process_article, lines 954-988: one pass of the clustering loop.
ClusterArticle ==
    /\ cur.phase = "cluster"
    /\ \E env \in SysEnvs :
        LET topic == cur.similar_topics[cur.i]
            out == DetectOrCreateCluster(events, topic.user_id, topic.id,
                       cur.title_embedding, cur.summary_embedding, cluster_threshold,
                       PromptsGet(prompts, "cluster_detection"), env)
            rows == AssociateResult(out, cur.article, env)
        IN  /\ Inject(EnvCost(env))
            /\ EnvFits(env, out)
            /\ Len(events) + Len(out.created) <= MaxEvents
            /\ events' = events \o out.created
            /\ article_events' = rows
            /\ lastCall' = AttemptRecord("live", cur.article, topic.id, env, out, rows)
            /\ cur' = AfterCluster(cur, out)
    /\ UNCHANGED <<ctlVars, topics, article_topics, articles, settings, triggers, svcVars,
                   pc, pending, cycle, bfVars>>

\* run_processing_cycle, line 1039: the loop is over.
EndCycle ==
    /\ pc = "loop"
    /\ pending = <<>>
    /\ cur.phase \in {"none", "done"}
    /\ pc' = "idle"
    /\ UNCHANGED <<ctlVars, dbVars, svcVars, pending, cur, cycle, bfVars, obsVars>>

\* backend create_topic: the topic is stored with the vector the provider gave,
\* or without one; only with one is the trigger thread started.
CreateTopic ==
    /\ Len(topics) < MaxTopics
    /\ \E user_id \in UserIds, topic_embedding \in TopicVecs \cup {NoVec} :
        /\ Inject(B2N(Truthy(topic_embedding)))
        /\ topics' = Append(topics, [ id |-> Len(topics) + 1, user_id |-> user_id,
                                      topic_vector |-> topic_embedding ])
        /\ triggers' = IF Truthy(topic_embedding) THEN triggers \cup {Len(topics) + 1}
                       ELSE triggers
    /\ UNCHANGED <<ctlVars, events, article_topics, article_events, articles, settings,
                   svcVars, liveVars, bfVars, lastCall>>

\* trigger_topic_processing: the POST to the postprocess service fails (refused,
\* timed out before the service took it); the failure is logged.
TriggerFails ==
    /\ \E t \in triggers :
        /\ Inject(1)
        /\ triggers' = triggers \ {t}
    /\ UNCHANGED <<ctlVars, topics, events, article_topics, article_events, articles, settings,
                   svcVars, liveVars, bfVars, lastCall>>

\* process_new_topic_endpoint, process_new_topic and backfill_existing_articles up
\* to line 494: the completed articles are fetched.  The endpoint serves one
\* request at a time.
ProcessNewTopic ==
    /\ bf.pc = "idle"
    /\ \E t \in triggers, ok \in BOOLEAN :
        LET queue == IF ok THEN CompletedArticles(articles) ELSE <<>>
        IN  /\ Inject(B2N(ok))
            /\ triggers' = triggers \ {t}
            /\ started' = started \cup {t}
            /\ bf' = [ pc |-> IF queue = <<>> THEN "idle" ELSE "scan",
                       topic_id |-> t, topic_embedding |-> topics[t].topic_vector,
                       user_id |-> topics[t].user_id,
                       threshold |-> similarity_threshold, queue |-> queue,
                       article |-> 0, title_embedding |-> NoVec,
                       summary_embedding |-> NoVec, scanned |-> <<>> ]
    /\ UNCHANGED <<ctlVars, topics, events, article_topics, article_events, articles, settings,
                   svcVars, liveVars, lastCall>>

\* backfill_existing_articles: where the loop goes after an article.
BfNext(b, entry) ==
    [b EXCEPT !.pc = IF Len(b.queue) = 1 THEN "idle" ELSE "scan",
              !.queue = Tail(@),
              !.scanned = Append(@, entry)]

\* backfill_existing_articles, lines 494-570: the article's detail, its score, the
\* association, and the summary when the article has none.
BackfillArticle ==
    /\ bf.pc = "scan"
    /\ \E detail_ok, assoc_ok, sum_ok, upd_ok \in BOOLEAN :
        LET a == Head(bf.queue)
            row == articles[a]
            fetched == detail_ok /\ ArticleDetailOk(row) /\ ~IsNone(row.derivative)
            derivative == row.derivative
            final_similarity == ScoreOf(derivative.title_embedding,
                                        derivative.summary_embedding, bf.topic_embedding)
            matched == fetched /\ final_similarity >= bf.threshold
            status == IF ~fetched THEN "skipped"
                      ELSE IF ~matched THEN "below"
                      ELSE PostStatus(assoc_ok,
                               ArticleTopicExists(article_topics, a, bf.topic_id))
            success == status = "created"
            can_summarise == /\ success /\ ~derivative.summary /\ ContentLong(a)
                             /\ PromptsGet(prompts, "summary_creation") # ""
            new_summary == can_summarise /\ sum_ok
            existing_summary == success /\ (derivative.summary \/ new_summary)
            entry == [ article |-> a, status |-> status,
                       score |-> IF matched THEN final_similarity ELSE 0 ]
        IN  /\ Inject(B2N(detail_ok) + B2N(assoc_ok) + B2N(sum_ok) + B2N(upd_ok))
            /\ ~matched => assoc_ok
            /\ ~can_summarise => sum_ok
            /\ ~new_summary => upd_ok
            /\ article_topics' =
                   IF matched /\ assoc_ok
                   THEN CreateArticleTopic(article_topics, a, bf.topic_id, final_similarity)
                   ELSE article_topics
            /\ articles' =
                   IF new_summary /\ upd_ok
                   THEN [articles EXCEPT ![a] =
                           UpdateArticleProcessingStatus(@, derivative.title_embedding,
                                                         TRUE, FALSE)]
                   ELSE articles
            /\ bf' = IF existing_summary /\ bf.user_id # 0
                     THEN [bf EXCEPT !.pc = "cluster", !.article = a,
                                     !.title_embedding = derivative.title_embedding,
                                     !.summary_embedding = derivative.summary_embedding,
                                     !.scanned = Append(@, entry)]
                     ELSE BfNext(bf, entry)
    /\ UNCHANGED <<ctlVars, topics, events, article_events, settings, triggers, svcVars,
                   liveVars, started, lastCall>>

\* backfill_existing_articles, lines 572-596: the clustering of the article.
BackfillCluster ==
    /\ bf.pc = "cluster"
    /\ \E env \in SysEnvs :
        LET out == DetectOrCreateCluster(events, bf.user_id, bf.topic_id,
                       bf.title_embedding, bf.summary_embedding, cluster_threshold,
                       PromptsGet(prompts, "cluster_detection"), env)
            rows == AssociateResult(out, bf.article, env)
        IN  /\ Inject(EnvCost(env))
            /\ EnvFits(env, out)
            /\ Len(events) + Len(out.created) <= MaxEvents
            /\ events' = events \o out.created
            /\ article_events' = rows
            /\ lastCall' = AttemptRecord("backfill", bf.article, bf.topic_id, env, out, rows)
            /\ bf' = [bf EXCEPT !.pc = IF Len(bf.queue) = 1 THEN "idle" ELSE "scan",
                                !.queue = Tail(@)]
    /\ UNCHANGED <<ctlVars, topics, article_topics, articles, settings, triggers, svcVars,
                   liveVars, started>>

Next ==
    \/ ReloadPrompts
    \/ GetPendingArticles
    \/ ProcessArticle
    \/ CreateAssociation
    \/ ClusterArticle
    \/ EndCycle
    \/ CreateTopic
    \/ TriggerFails
    \/ ProcessNewTopic
    \/ BackfillArticle
    \/ BackfillCluster

Spec == Init /\ [][Next]_vars

----------------------------------------------------------------------------
(* Clustering invocations on their own: both implementations of             *)
(* detect_or_create_cluster, called with every input against the events the *)
(* earlier invocations created.                                             *)

CallRecord(impl, user_id, topic_id, title_embedding, summary_embedding, env, before, out) ==
    [ impl |-> impl, user_id |-> user_id, topic_id |-> topic_id,
      title_embedding |-> title_embedding, summary_embedding |-> summary_embedding,
      threshold |-> cluster_threshold,
      prompt |-> PromptsGet(prompts, "cluster_detection"),
      fetch_ok |-> env.fetch_ok, response |-> env.response, create_ok |-> env.create_ok,
      before |-> before, out |-> out ]

InitCluster ==
    /\ SysInit
    /\ events = <<>>
    /\ cluster_threshold \in ClusterThresholds
    /\ prompts \in { [summary_creation |-> "db", cluster_detection |-> "db"],
                     [summary_creation |-> "default"] }
    /\ lastCall = NoCall

CallMain ==
    \E user_id \in UserIds, topic_id \in ClusterTopicIds,
       title_embedding \in TitleVecs \cup {NoVec},
       summary_embedding \in SummaryVecs \cup {NoVec}, env \in Envs :
        LET out == DetectOrCreateCluster(events, user_id, topic_id, title_embedding,
                       summary_embedding, cluster_threshold,
                       PromptsGet(prompts, "cluster_detection"), env)
        IN  /\ lastCall = NoCall
            /\ Len(events) + Len(out.created) <= MaxEvents
            /\ events' = events \o out.created
            /\ lastCall' = CallRecord("main", user_id, topic_id, title_embedding,
                                      summary_embedding, env, Len(events), out)
            /\ UNCHANGED <<ctlVars, topics, article_topics, article_events, articles, settings,
                           triggers, svcVars, liveVars, bfVars, faults>>

CallService ==
    \E user_id \in UserIds, topic_id \in ClusterTopicIds,
       title_embedding \in TitleVecs \cup {NoVec},
       summary_embedding \in SummaryVecs \cup {NoVec}, env \in Envs :
        LET out == ServiceDetectOrCreateCluster(events, user_id, topic_id, title_embedding,
                       summary_embedding, cluster_threshold, prompts, env)
        IN  /\ lastCall = NoCall
            /\ Len(events) + Len(out.created) <= MaxEvents
            /\ events' = events \o out.created
            /\ lastCall' = CallRecord("service", user_id, topic_id, title_embedding,
                                      summary_embedding, env, Len(events), out)
            /\ UNCHANGED <<ctlVars, topics, article_topics, article_events, articles, settings,
                           triggers, svcVars, liveVars, bfVars, faults>>

\* The caller takes the returned value; the next invocation can begin.
TakeResult ==
    /\ lastCall # NoCall
    /\ lastCall' = NoCall
    /\ UNCHANGED <<ctlVars, dbVars, svcVars, liveVars, bfVars, faults>>

NextCluster == CallMain \/ CallService \/ TakeResult

SpecCluster == InitCluster /\ [][NextCluster]_vars

----------------------------------------------------------------------------
(* Properties of one clustering invocation (SpecCluster) *)

\* The events that existed for the call's (owner, topic) when it began.
ExistingAt(c) ==
    { i \in 1..c.before : events[i].user_id = c.user_id /\ events[i].topic_id = c.topic_id }

CallScore(c, i) == ScoreOf(c.title_embedding, c.summary_embedding, events[i].event_embedding)

\* Those of them that have a vector and score at least the cluster threshold.
Qualifying(c) ==
    { i \in ExistingAt(c) :
        /\ Truthy(events[i].event_embedding)
        /\ Truthy(c.title_embedding) \/ Truthy(c.summary_embedding)
        /\ CallScore(c, i) >= c.threshold }

\* C1: when an existing event of (owner, topic) has a vector and scores at least
\* cluster_threshold (and the events were fetched), the result is the
\* highest-scoring such event and its relevance_score is that score.
C1_DirectAssignBestEvent ==
    (lastCall # NoCall /\ lastCall.fetch_ok /\ Qualifying(lastCall) # {}) =>
        LET r == lastCall.out.result
        IN  /\ ~IsNone(r)
            /\ r.id \in Qualifying(lastCall)
            /\ \A j \in Qualifying(lastCall) : CallScore(lastCall, j) <= CallScore(lastCall, r.id)
            /\ "relevance_score" \in DOMAIN r
            /\ r.relevance_score = CallScore(lastCall, r.id)

\* C2: when the numeric stage finds an event scoring at least cluster_threshold,
\* the invocation ends there: an existing event is returned, the reasoning
\* capability is not called and no event is created.
C2_DirectAssignIsTerminal ==
    (lastCall # NoCall /\ lastCall.out.found) =>
        /\ lastCall.out.llm_calls = 0
        /\ lastCall.out.created = <<>>
        /\ Len(events) = lastCall.before
        /\ ~IsNone(lastCall.out.result)
        /\ lastCall.out.result.id \in ExistingAt(lastCall)

C2_Witness ==
    /\ lastCall # NoCall
    /\ lastCall.out.found
    /\ lastCall.prompt # ""
    /\ lastCall.response = "ok"
    /\ lastCall.create_ok
    /\ Cardinality(ExistingAt(lastCall)) >= 2

\* C3 as claimed: when no existing event scores at least cluster_threshold, the
\* reasoning capability is invoked and, on a well-formed response, exactly one
\* new event of (owner, topic) is created and returned with relevance_score 1.0.
C3_Original ==
    (lastCall # NoCall /\ Qualifying(lastCall) = {}) =>
        /\ lastCall.out.llm_calls = 1
        /\ lastCall.response = "ok" =>
              /\ Len(lastCall.out.created) = 1
              /\ ~IsNone(lastCall.out.result)
              /\ lastCall.out.result.relevance_score = 100

\* C3 as amended: when no existing event scores at least cluster_threshold and
\* the cluster_detection template is available, the reasoning capability is
\* invoked once; on a well-formed response, and when create_event succeeds,
\* exactly one new event of (owner, topic) is created and returned with
\* relevance_score 1.0; whatever the reasoning path returns is an event created
\* by this invocation, never a pre-existing one.
C3_ReasoningCreatesNewEvent ==
    (lastCall # NoCall /\ Qualifying(lastCall) = {} /\ lastCall.prompt # "") =>
        LET out == lastCall.out
        IN  /\ out.llm_calls = 1
            /\ (lastCall.response = "ok" /\ lastCall.create_ok) =>
                  /\ Len(out.created) = 1
                  /\ Len(events) = lastCall.before + 1
                  /\ ~IsNone(out.result)
                  /\ out.result.id = lastCall.before + 1
                  /\ events[out.result.id].user_id = lastCall.user_id
                  /\ events[out.result.id].topic_id = lastCall.topic_id
                  /\ out.result.relevance_score = 100
            /\ ~IsNone(out.result) =>
                  /\ out.result.id > lastCall.before
                  /\ out.result.relevance_score = 100

C3_Witness ==
    /\ lastCall # NoCall
    /\ ExistingAt(lastCall) # {}
    /\ \E i \in ExistingAt(lastCall) : Truthy(events[i].event_embedding)
    /\ Truthy(lastCall.title_embedding)
    /\ Qualifying(lastCall) = {}
    /\ lastCall.prompt # ""
    /\ lastCall.response = "ok"
    /\ Len(lastCall.out.created) = 1

\* C4: a cluster_detection template that is absent when the reasoning fallback
\* is needed is a fatal error: the invocation does not end as a soft failure
\* (a null result), no reasoning call is made and no event is created.
C4_MissingPromptIsFatal ==
    (lastCall # NoCall /\ ~lastCall.out.found /\ lastCall.prompt = "") =>
        /\ lastCall.out.raised
        /\ lastCall.out.llm_calls = 0
        /\ lastCall.out.created = <<>>

\* C5: a reasoning answer that is not valid JSON, or lacks one of title,
\* description, event_description, makes the invocation return null, create no
\* event and raise nothing.
C5_MalformedResponseIsSoftFailure ==
    (/\ lastCall # NoCall
     /\ lastCall.out.llm_calls = 1
     /\ lastCall.response \in {"invalid_json", "no_title", "no_description",
                               "no_event_description"}) =>
        /\ IsNone(lastCall.out.result)
        /\ lastCall.out.created = <<>>
        /\ ~lastCall.out.raised

----------------------------------------------------------------------------
(* The whole system: failures, idempotence, backfill *)

IsAttempt == lastCall # NoCall /\ lastCall.impl \in {"live", "backfill"}

\* C6: a clustering attempt in which the fetch of the existing events, the
\* reasoning call, create_event or create_article_event_association failed leaves
\* the stored events and article-event associations as they were before it.
C6_FailedAttemptPersistsNothing ==
    ( /\ IsAttempt
      /\ \/ ~lastCall.fetch_ok
         \/ lastCall.response = "none"
         \/ ~lastCall.create_ok
         \/ ~lastCall.assoc_ok )
    => /\ lastCall.events_after = lastCall.events_before
       /\ lastCall.rows_after = lastCall.rows_before

UniqueAssociations ==
    /\ \A i, j \in 1..Len(article_topics) :
         ( /\ article_topics[i].rss_item_id = article_topics[j].rss_item_id
           /\ article_topics[i].topic_id = article_topics[j].topic_id ) => i = j
    /\ \A i, j \in 1..Len(article_events) :
         ( /\ article_events[i].rss_item_id = article_events[j].rss_item_id
           /\ article_events[i].event_id = article_events[j].event_id ) => i = j

\* A step leaves every stored association as it is.
StoredAssociationsKept ==
    /\ Len(article_topics') >= Len(article_topics)
    /\ \A k \in 1..Len(article_topics) : article_topics'[k] = article_topics[k]
    /\ Len(article_events') >= Len(article_events)
    /\ \A k \in 1..Len(article_events) : article_events'[k] = article_events[k]

\* A step whose create request was answered with a conflict stores nothing.
RejectedStoresNothing ==
    /\ ( /\ Len(cur'.posted) = Len(cur.posted) + 1
         /\ cur'.posted[Len(cur'.posted)] = "conflict" )
       => article_topics' = article_topics
    /\ ( /\ Len(bf'.scanned) = Len(bf.scanned) + 1
         /\ bf'.scanned[Len(bf'.scanned)].status = "conflict" )
       => article_topics' = article_topics
    /\ ( /\ lastCall' # lastCall
         /\ lastCall'.status = "conflict" )
       => article_events' = article_events

\* C7: there is at most one article-topic association per (article, topic) and at
\* most one article-event association per (article, event), whatever cycles,
\* re-processing and backfill passes ran; a create request for an existing pair is
\* rejected and the stored association and its score stay as they are.
C7_AtMostOneAssociationPerPair ==
    /\ [](UniqueAssociations)
    /\ [][StoredAssociationsKept /\ RejectedStoresNothing]_vars

\* An article re-processed by a later cycle and an article scanned by a backfill
\* pass have both had their create request rejected.
C7_Witness ==
    /\ \E k \in 1..Len(cur.posted) : cur.posted[k] = "conflict"
    /\ \E k \in 1..Len(bf.scanned) : bf.scanned[k].status = "conflict"
    /\ UniqueAssociations

\* What live processing of article a computes for topic t when nothing fails.
LiveTopicMatch(a, t, threshold) ==
    FindSimilarTopics(TitleVecOf(a), IF ContentLong(a) THEN SummaryVecOf(a) ELSE NoVec,
                      <<topics[t]>>, threshold)

\* C8: for an article processed before the topic existed, the backfill pass stores
\* the association exactly when live processing with the topic in the snapshot
\* would have, and with the same score, the maximum of the title and summary
\* similarities (runs without failures).
C8_BackfillEqualsLive ==
    \A k \in 1..Len(bf.scanned) :
        LET e == bf.scanned[k]
            match == LiveTopicMatch(e.article, bf.topic_id, bf.threshold)
        IN  (faults = 0 /\ e.status # "conflict")
            => /\ (e.status = "created") <=> (match # <<>>)
               /\ e.status = "created" => e.score = match[1].similarity_score

\* C9: every stored topic has its trigger pending or its backfill pass started.
C9_TopicCreationTriggersBackfill ==
    \A t \in 1..Len(topics) : t \in triggers \/ t \in started

\* C10: once the clustering of an article begins, the association of every
\* matched topic has been requested and is stored unless its own request failed;
\* when the article is done, clustering was attempted for every matched topic
\* whatever the earlier attempts returned; and a cycle ends only after every
\* article it fetched was processed.
C10_ClusteringFailuresDoNotBlock ==
    /\ cur.phase \in {"cluster", "done"} =>
         /\ Len(cur.posted) = Len(cur.similar_topics)
         /\ \A k \in 1..Len(cur.posted) :
              cur.posted[k] # "failed" =>
                 ArticleTopicExists(article_topics, cur.article, cur.similar_topics[k].id)
    /\ (cur.phase = "done" /\ cur.summary) =>
         Len(cur.clustered) = Len(cur.similar_topics)
    /\ pc = "idle" => cycle.processed = cycle.fetched

\* Both topics matched the first of a cycle's two articles; clustering for the
\* first topic returned nothing, the second topic was still clustered, both
\* associations are stored and the cycle went on to the second article.
C10_Witness ==
    /\ pc = "idle"
    /\ cycle.fetched = 2 /\ cycle.processed = 2
    /\ cur.article = 2 /\ articles[2].status = "completed"
    /\ \A t \in {1, 2} : ArticleTopicExists(article_topics, 1, t)
    /\ Len(events) = 1 /\ events[1].topic_id = 2
    /\ ArticleEventExists(article_events, 1, 1)

----------------------------------------------------------------------------
(* Retry of a failed clustering *)

InSeq(x, seq) == \E k \in 1..Len(seq) : seq[k] = x

\* C11: when the last clustering attempt of live processing returned nothing and
\* the cycle is over, its article is still offered by get_pending_processing, so
\* that a later cycle attempts the same (article, topic) pair again.
C11_FailedClusteringIsRetried ==
    ( /\ IsAttempt
      /\ lastCall.impl = "live"
      /\ lastCall.result_none
      /\ pc = "idle" )
    => InSeq(lastCall.article, PendingProcessing(articles))

----------------------------------------------------------------------------
(* The API thread's processing cycle: POST /api/process runs                *)
(* run_processing_cycle beside the daemon thread.  The API server has one   *)
(* event loop and its handlers block it, so it serves one request at a time. *)

\* process_articles_api, run_processing_cycle line 1008: reload_prompts.
ApiReloadPrompts ==
    /\ api.pc = "idle"
    /\ bf.pc = "idle"
    /\ \E sim_ok, clu_ok, topics_ok, prompts_ok \in BOOLEAN :
        /\ Inject(B2N(sim_ok) + B2N(clu_ok) + B2N(topics_ok) + B2N(prompts_ok))
        /\ similarity_threshold' = IF sim_ok THEN settings.similarity_threshold
                                   ELSE DefaultSimilarityThreshold
        /\ cluster_threshold' = IF clu_ok THEN settings.cluster_threshold
                                ELSE DefaultClusterThreshold
        /\ cached_topics' = IF topics_ok THEN GetAllTopicsInternal(topics)
                            ELSE cached_topics
        /\ prompts' = IF prompts_ok THEN ReloadedPrompts(prompts, settings.prompts)
                      ELSE [summary_creation |-> "fallback"]
    /\ api' = [api EXCEPT !.pc = "reloaded"]
    /\ UNCHANGED <<dbVars, liveVars, bfVars, lastCall, running>>

\* run_processing_cycle, lines 1011-1015, in the API thread.
ApiGetPendingArticles ==
    /\ api.pc = "reloaded"
    /\ \E ok \in BOOLEAN :
        LET fetched == IF ok THEN PendingProcessing(articles) ELSE <<>>
        IN  /\ Inject(B2N(ok))
            /\ api' = [ pc |-> IF fetched = <<>> THEN "idle" ELSE "loop",
                        pending |-> fetched, cur |-> IdleCur ]
    /\ UNCHANGED <<dbVars, svcVars, liveVars, bfVars, lastCall, running>>

\* process_article, lines 907-942, in the API thread.
ApiProcessArticle ==
    /\ api.pc = "loop"
    /\ api.pending # <<>>
    /\ api.cur.phase \in {"none", "done"}
    /\ running
    /\ \E te_ok, sum_ok, se_ok, upd_ok \in BOOLEAN :
        LET a == Head(api.pending)
            can_summarise == ContentLong(a) /\ PromptsGet(prompts, "summary_creation") # ""
            title_embedding == IF te_ok THEN TitleVecOf(a) ELSE NoVec
            summary == can_summarise /\ sum_ok
            summary_embedding == IF summary /\ se_ok THEN SummaryVecOf(a) ELSE NoVec
            all_failed == ~Truthy(title_embedding) /\ ~summary
            similar_topics ==
                IF all_failed THEN <<>>
                ELSE FindSimilarTopics(title_embedding, summary_embedding,
                                       cached_topics, similarity_threshold)
        IN  /\ Inject(B2N(te_ok) + B2N(sum_ok) + B2N(se_ok) + B2N(upd_ok))
            /\ ~can_summarise => sum_ok
            /\ ~summary => se_ok
            /\ articles' = IF upd_ok
                           THEN [articles EXCEPT ![a] =
                                   UpdateArticleProcessingStatus(@, title_embedding,
                                                                 summary, all_failed)]
                           ELSE articles
            /\ api' = [api EXCEPT
                         !.pending = Tail(@),
                         !.cur = [ article |-> a, title_embedding |-> title_embedding,
                                   summary |-> summary,
                                   summary_embedding |-> summary_embedding,
                                   similar_topics |-> similar_topics,
                                   phase |-> IF similar_topics = <<>> THEN "done"
                                             ELSE "assoc",
                                   i |-> 1, posted |-> <<>>, clustered |-> <<>> ]]
    /\ UNCHANGED <<topics, events, article_topics, article_events, settings, triggers,
                   svcVars, liveVars, bfVars, lastCall, running>>

\* process_article, lines 947-950, in the API thread.
ApiCreateAssociation ==
    /\ api.cur.phase = "assoc"
    /\ \E ok \in BOOLEAN :
        LET c == api.cur
            topic == c.similar_topics[c.i]
            last == c.i = Len(c.similar_topics)
        IN  /\ Inject(B2N(ok))
            /\ article_topics' =
                   IF ok THEN CreateArticleTopic(article_topics, c.article, topic.id,
                                                 topic.similarity_score)
                   ELSE article_topics
            /\ api' = [api EXCEPT !.cur = [c EXCEPT
                         !.posted = Append(@, PostStatus(ok,
                                        ArticleTopicExists(article_topics, c.article,
                                                           topic.id))),
                         !.i = IF last THEN 1 ELSE @ + 1,
                         !.phase = IF ~last THEN "assoc"
                                   ELSE IF c.summary THEN "cluster" ELSE "done"]]
    /\ UNCHANGED <<topics, events, article_events, articles, settings, triggers,
                   svcVars, liveVars, bfVars, lastCall, running>>

\* process_article, lines 954-988, in the API thread.
ApiClusterArticle ==
    /\ api.cur.phase = "cluster"
    /\ \E env \in SysEnvs :
        LET c == api.cur
            topic == c.similar_topics[c.i]
            out == DetectOrCreateCluster(events, topic.user_id, topic.id,
                       c.title_embedding, c.summary_embedding, cluster_threshold,
                       PromptsGet(prompts, "cluster_detection"), env)
            rows == AssociateResult(out, c.article, env)
        IN  /\ Inject(EnvCost(env))
            /\ EnvFits(env, out)
            /\ Len(events) + Len(out.created) <= MaxEvents
            /\ events' = events \o out.created
            /\ article_events' = rows
            /\ lastCall' = AttemptRecord("api", c.article, topic.id, env, out, rows)
            /\ api' = [api EXCEPT !.cur = AfterCluster(c, out)]
    /\ UNCHANGED <<topics, article_topics, articles, settings, triggers, svcVars,
                   liveVars, bfVars, running>>

\* run_processing_cycle, lines 1022-1024 and 1039, in the API thread: the loop is
\* over, or the service was told to stop.
ApiEndCycle ==
    /\ api.pc = "loop"
    /\ api.cur.phase \in {"none", "done"}
    /\ api.pending = <<>> \/ ~running
    /\ api' = [api EXCEPT !.pc = "idle", !.pending = <<>>]
    /\ UNCHANGED <<dbVars, svcVars, liveVars, bfVars, obsVars, running>>

\* process_new_topic_endpoint: served when the API thread is free.
ApiProcessNewTopic ==
    /\ api.pc = "idle"
    /\ ProcessNewTopic

\* The service after construction.  No collaborator fails in these behaviours:
\* they differ by their interleaving alone.
InitApi ==
    /\ topics = <<>>
    /\ events = <<>>
    /\ article_topics = <<>>
    /\ article_events = <<>>
    /\ articles = [ a \in ArticleIds |->
                      [ status |-> "pending", processing_attempts |-> 0,
                        derivative |-> PyNone ] ]
    /\ settings = [ similarity_threshold |-> 70, cluster_threshold |-> 70,
                    prompts |-> [ summary_creation |-> "db",
                                  cluster_detection |-> "db" ] ]
    /\ triggers = {}
    /\ cached_topics = <<>>
    /\ similarity_threshold = DefaultSimilarityThreshold
    /\ cluster_threshold = DefaultClusterThreshold
    /\ prompts = [summary_creation |-> "", cluster_detection |-> ""]
    /\ pc = "idle"
    /\ pending = <<>>
    /\ cur = IdleCur
    /\ cycle = [fetched |-> 0, processed |-> 0]
    /\ bf = IdleBf
    /\ started = {}
    /\ faults = MaxFaults
    /\ lastCall = NoCall
    /\ running = TRUE
    /\ api = IdleApi

NextApi ==
    \/ ReloadPrompts
    \/ GetPendingArticles
    \/ ProcessArticle
    \/ CreateAssociation
    \/ ClusterArticle
    \/ EndCycle
    \/ CreateTopic
    \/ ApiProcessNewTopic
    \/ BackfillArticle
    \/ BackfillCluster
    \/ ApiReloadPrompts
    \/ ApiGetPendingArticles
    \/ ApiProcessArticle
    \/ ApiCreateAssociation
    \/ ApiClusterArticle
    \/ ApiEndCycle

SpecApi == InitApi /\ [][NextApi]_vars

\* C12: while a processing cycle is in progress (its articles fetched, its loop
\* not yet over), no step replaces the topic snapshot or either threshold.
C12_SnapshotStableWithinCycle ==
    [][ (pc = "loop" \/ api.pc = "loop")
        => UNCHANGED <<cached_topics, similarity_threshold, cluster_threshold>> ]_vars

InFlight(c) == c.phase \in {"assoc", "cluster"}

\* C13: no two executions of process_article overlap, and no article is in the
\* pending list of two cycles at once.
C13_OneArticleAtATime ==
    /\ ~(InFlight(cur) /\ InFlight(api.cur))
    /\ \A a \in ArticleIds : ~(InSeq(a, pending) /\ InSeq(a, api.pending))

----------------------------------------------------------------------------
(* Topic matching on its own: both implementations of find_similar_topics   *)
(* against the topic snapshot, the snapshot's refresh, and                  *)
(* calculate_cosine_similarity                                               *)

MatchTopicVecs == { <<3, 4>>, <<4, 3>>, <<0, 1>> }
NoThreshold == 0 - 1
MatchThresholds == {NoThreshold, 0, 70}
CosineVecs == { <<1, 0>>, <<3, 4>>, <<1>> }
DefaultCalcThreshold == 30

\* find_similar_topics, lines 366-367 of main.py: the threshold in force.
MainThreshold(threshold, own) ==
    IF threshold = NoThreshold THEN own ELSE threshold

\* SimilarityCalculator.find_similar_topics, line 295: threshold or default.
CalcThreshold(threshold, default_threshold) ==
    IF threshold = NoThreshold \/ threshold = 0 THEN default_threshold ELSE threshold

\* SimilarityCalculator.find_similar_topics, given the threshold in force.
CalcFindSimilarTopics(article_title_embedding, article_summary_embedding, cand, threshold) ==
    IF Len(cand) = 0 THEN <<>>
    ELSE IF ~Truthy(article_title_embedding) /\ ~Truthy(article_summary_embedding)
    THEN <<>>
    ELSE
    LET M[i \in 0..Len(cand)] ==
            IF i = 0 THEN <<>>
            ELSE LET topic == cand[i]
                     topic_vector == topic.topic_vector
                     title_similarity ==
                         CalculateCosineSimilarity(article_title_embedding, topic_vector)
                     summary_similarity ==
                         CalculateCosineSimilarity(article_summary_embedding, topic_vector)
                     both == /\ Truthy(article_title_embedding)
                             /\ Truthy(article_summary_embedding)
                     from_title == IF both THEN title_similarity > summary_similarity
                                   ELSE Truthy(article_title_embedding)
                     final_similarity == IF from_title THEN title_similarity
                                         ELSE summary_similarity
                 IN  IF ~Truthy(topic_vector) THEN M[i - 1]
                     ELSE IF final_similarity >= threshold
                     THEN Append(M[i - 1],
                                 [ similarity_score |-> final_similarity,
                                   similarity_source |-> IF from_title THEN "title"
                                                         ELSE "summary" ] @@ topic)
                     ELSE M[i - 1]
    IN  SortDesc(M[Len(cand)])

SnapshotAfterMatch_InPlace(title_embedding, summary_embedding, snapshot, threshold) ==
    [ k \in DOMAIN snapshot |->
        IF /\ Truthy(snapshot[k].topic_vector)
           /\ ScoreOf(title_embedding, summary_embedding, snapshot[k].topic_vector)
                 >= threshold
        THEN [ similarity_score |-> ScoreOf(title_embedding, summary_embedding,
                                            snapshot[k].topic_vector) ] @@ snapshot[k]
        ELSE snapshot[k] ]

\* find_similar_topics annotates topic.copy(), never the topic of the snapshot:
\* the snapshot after a match.
SnapshotAfterMatch(title_embedding, summary_embedding, snapshot, threshold) ==
    snapshot

\* calculate_cosine_similarity, lines 253-263: the body of the try.
CosineTry(embedding1, embedding2) ==
    IF Len(embedding1) # Len(embedding2) THEN [raised |-> TRUE, value |-> 0]
    ELSE IF Len(embedding1) = 0 THEN [raised |-> TRUE, value |-> 0]
    ELSE [raised |-> FALSE, value |-> SkCosine(embedding1, embedding2)]

\* calculate_cosine_similarity with its except clause (lines 265-267).
CalculateCosineSimilarityCall(embedding1, embedding2) ==
    IF CosineTry(embedding1, embedding2).raised
    THEN [raised |-> FALSE, value |-> 0]
    ELSE CosineTry(embedding1, embedding2)

MatchRecord(impl, title_embedding, summary_embedding, threshold, in_force, out) ==
    [ impl |-> impl, title_embedding |-> title_embedding,
      summary_embedding |-> summary_embedding, threshold |-> threshold,
      in_force |-> in_force, topics |-> cached_topics, out |-> out ]

\* The stored topics the service can find at its start.
InitMatch ==
    /\ topics \in { t \in UNION { [1..n -> [ id : 1..MaxTopics, user_id : UserIds,
                                             topic_vector : MatchTopicVecs \cup {NoVec} ]] :
                                  n \in 0..MaxTopics } :
                      \A k \in DOMAIN t : t[k].id = k }
    /\ events = <<>>
    /\ article_topics = <<>>
    /\ article_events = <<>>
    /\ articles = [ a \in ArticleIds |->
                      [ status |-> "pending", processing_attempts |-> 0,
                        derivative |-> PyNone ] ]
    /\ settings = [ similarity_threshold |-> 70, cluster_threshold |-> 70,
                    prompts |-> [ summary_creation |-> "db",
                                  cluster_detection |-> "db" ] ]
    /\ triggers = {}
    /\ cached_topics = <<>>
    /\ similarity_threshold = DefaultSimilarityThreshold
    /\ cluster_threshold = DefaultClusterThreshold
    /\ prompts = [summary_creation |-> "", cluster_detection |-> ""]
    /\ pc = "idle"
    /\ pending = <<>>
    /\ cur = IdleCur
    /\ cycle = [fetched |-> 0, processed |-> 0]
    /\ bf = IdleBf
    /\ started = {}
    /\ faults = 0
    /\ lastCall = NoCall
    /\ running = TRUE
    /\ api = IdleApi

\* reload_topics_cache: the snapshot is replaced by the stored topics, or kept
\* when the GET fails.
ReloadTopicsCache ==
    /\ \E ok \in BOOLEAN :
        /\ cached_topics' = IF ok THEN GetAllTopicsInternal(topics) ELSE cached_topics
        /\ lastCall' = [ impl |-> "reload", ok |-> ok, topics |-> cached_topics ]
    /\ UNCHANGED <<dbVars, similarity_threshold, cluster_threshold, prompts, liveVars,
                   bfVars, faults, ctlVars>>

\* AIPostProcessService.find_similar_topics over the snapshot.
MatchMain ==
    /\ \E title_embedding \in TitleVecs \cup {NoVec},
          summary_embedding \in SummaryVecs \cup {NoVec},
          threshold \in MatchThresholds :
        LET in_force == MainThreshold(threshold, similarity_threshold)
        IN  /\ lastCall' = MatchRecord("service", title_embedding, summary_embedding,
                               threshold, in_force,
                               FindSimilarTopics(title_embedding, summary_embedding,
                                                 cached_topics, in_force))
            /\ cached_topics' = SnapshotAfterMatch(title_embedding, summary_embedding,
                                                   cached_topics, in_force)
    /\ UNCHANGED <<dbVars, similarity_threshold, cluster_threshold, prompts, liveVars,
                   bfVars, faults, ctlVars>>

\* SimilarityCalculator.find_similar_topics over the snapshot.
MatchCalculator ==
    /\ \E title_embedding \in TitleVecs \cup {NoVec},
          summary_embedding \in SummaryVecs \cup {NoVec},
          threshold \in MatchThresholds :
        LET in_force == CalcThreshold(threshold, DefaultCalcThreshold)
        IN  /\ lastCall' = MatchRecord("calculator", title_embedding, summary_embedding,
                               threshold, in_force,
                               CalcFindSimilarTopics(title_embedding, summary_embedding,
                                                     cached_topics, in_force))
            /\ cached_topics' = SnapshotAfterMatch(title_embedding, summary_embedding,
                                                   cached_topics, in_force)
    /\ UNCHANGED <<dbVars, similarity_threshold, cluster_threshold, prompts, liveVars,
                   bfVars, faults, ctlVars>>

\* SimilarityCalculator.calculate_cosine_similarity on two vectors.
CosineCall ==
    /\ \E embedding1 \in CosineVecs, embedding2 \in CosineVecs :
        lastCall' = [ impl |-> "cosine", embedding1 |-> embedding1,
                      embedding2 |-> embedding2,
                      out |-> CalculateCosineSimilarityCall(embedding1, embedding2) ]
    /\ UNCHANGED <<dbVars, svcVars, liveVars, bfVars, faults, ctlVars>>

NextMatch ==
    \/ ReloadTopicsCache
    \/ MatchMain
    \/ MatchCalculator
    \/ CosineCall
    \/ CreateTopic

SpecMatch == InitMatch /\ [][NextMatch]_vars

----------------------------------------------------------------------------
(* Topic matching: what a call returns and what it leaves behind *)

IsMatch == lastCall # NoCall /\ lastCall.impl \in {"service", "calculator"}

\* The similarities of the article vectors that were given to a topic vector.
Available(title_embedding, summary_embedding, v) ==
    { SkCosine(title_embedding, v) : x \in {1} \cap {IF Truthy(title_embedding) THEN 1 ELSE 0} }
      \cup
    { SkCosine(summary_embedding, v) : x \in {1} \cap {IF Truthy(summary_embedding) THEN 1 ELSE 0} }

Largest(S) == CHOOSE m \in S : \A x \in S : m >= x

\* The threshold a call was given: the passed one, or the callee's own when none
\* was passed.
GivenThreshold(c) ==
    IF c.threshold = NoThreshold THEN c.in_force ELSE c.threshold

\* C14: the topic snapshot changes only in a step that is a successful refresh,
\* which sets it to the stored topics; a match and a failed refresh leave it,
\* record by record, as it was.
C14_SnapshotNeverMutatedInPlace ==
    [][ cached_topics' # cached_topics
        => /\ lastCall'.impl = "reload"
           /\ lastCall'.ok
           /\ cached_topics' = GetAllTopicsInternal(topics) ]_vars

\* A match returned an annotated topic and the snapshot's records carry no score.
C14_Witness ==
    /\ IsMatch
    /\ Len(lastCall.out) > 0
    /\ cached_topics = lastCall.topics
    /\ \A k \in 1..Len(cached_topics) : "similarity_score" \notin DOMAIN cached_topics[k]

\* C16: a call returns exactly the candidates that have a vector and whose score
\* is at least the threshold it was given, 0 included, and nothing when neither
\* article vector is supplied.
C16_ExactlyTheCandidatesAboveThreshold ==
    IsMatch =>
      LET c == lastCall
          expected ==
              { k \in 1..Len(c.topics) :
                  /\ Truthy(c.title_embedding) \/ Truthy(c.summary_embedding)
                  /\ Truthy(c.topics[k].topic_vector)
                  /\ Largest(Available(c.title_embedding, c.summary_embedding,
                                       c.topics[k].topic_vector)) >= GivenThreshold(c) }
      IN  { c.out[j].id : j \in 1..Len(c.out) } = expected

\* C17: the returned list is in descending order of score, and candidates of equal
\* score are in the order of the candidate list (a topic's id is its position).
C17_SortedDescendingAndStable ==
    IsMatch =>
      \A i, j \in 1..Len(lastCall.out) :
         i < j => /\ lastCall.out[i].similarity_score >= lastCall.out[j].similarity_score
                  /\ lastCall.out[i].similarity_score = lastCall.out[j].similarity_score
                       => lastCall.out[i].id < lastCall.out[j].id

\* Two candidates of equal score were returned, in the order of the list.
C17_Witness ==
    /\ IsMatch
    /\ Len(lastCall.out) = 2
    /\ lastCall.out[1].similarity_score = lastCall.out[2].similarity_score
    /\ lastCall.out[1].id < lastCall.out[2].id

\* C18: the score of a returned candidate is the largest of the similarities of
\* the article vectors that were given, and the recorded source names a given
\* vector whose similarity is that score.
C18_ScoreIsMaxOfAvailable ==
    IsMatch =>
      \A j \in 1..Len(lastCall.out) :
         LET m == lastCall.out[j]
             from == IF m.similarity_source = "title" THEN lastCall.title_embedding
                     ELSE lastCall.summary_embedding
         IN  /\ m.similarity_score =
                   Largest(Available(lastCall.title_embedding, lastCall.summary_embedding,
                                     m.topic_vector))
             /\ m.similarity_source \in {"title", "summary"}
             /\ Truthy(from)
             /\ SkCosine(from, m.topic_vector) = m.similarity_score

\* Both vectors were given and the summary similarity (0.80) beat the title's
\* (0.60).
C18_Witness ==
    /\ IsMatch
    /\ Truthy(lastCall.title_embedding) /\ Truthy(lastCall.summary_embedding)
    /\ \E j \in 1..Len(lastCall.out) :
         /\ lastCall.out[j].topic_vector = <<3, 4>>
         /\ lastCall.out[j].similarity_source = "summary"
         /\ lastCall.out[j].similarity_score = 80

\* C20: calculate_cosine_similarity on vectors of different lengths raises to its
\* caller.
C20_MismatchRaises ==
    ( /\ lastCall # NoCall
      /\ lastCall.impl = "cosine"
      /\ Len(lastCall.embedding1) # Len(lastCall.embedding2) )
    => lastCall.out.raised

----------------------------------------------------------------------------
(* The numeric stage of clustering on its own (SpecCluster) *)

\* The existing events of the invocation that carry a vector.
WithVector(c) == { i \in ExistingAt(c) : Truthy(events[i].event_embedding) }

\* C19: the numeric stage (find_similar_events, and the loop of
\* detect_or_create_cluster) finds an event exactly when the article has a vector
\* and the highest score among the events with a vector is at least the
\* threshold; the event found is then one of those with that highest score, and
\* an event without a vector is never found.
C19_BestEventOrNull ==
    (lastCall # NoCall /\ lastCall.fetch_ok) =>
        LET c == lastCall
            meets == /\ Truthy(c.title_embedding) \/ Truthy(c.summary_embedding)
                     /\ \E i \in WithVector(c) : CallScore(c, i) >= c.threshold
        IN  /\ c.out.found <=> meets
            /\ c.out.found =>
                  /\ ~IsNone(c.out.result)
                  /\ c.out.result.id \in WithVector(c)
                  /\ \A j \in WithVector(c) :
                         CallScore(c, j) <= CallScore(c, c.out.result.id)

----------------------------------------------------------------------------
(* The daemon loop and the shutdown signal (run_daemon, _signal_handler).    *)
(* Here pc also tells where run_daemon is: "test" at the loop test of line   *)
(* 1057, "idle" inside the loop body before run_processing_cycle (lines      *)
(* 1059-1073), "wait" in the wait of lines 1076-1080, "stopped" after the    *)
(* loop.  The collaborators do not fail and every call returns.              *)

\* _signal_handler, lines 88-92: it runs between any two steps of the main
\* thread; stop_api_server changes nothing.
SignalHandler ==
    /\ pc # "stopped"
    /\ running
    /\ running' = FALSE
    /\ UNCHANGED <<api, dbVars, svcVars, liveVars, bfVars, obsVars>>

\* run_daemon, line 1057: while self.running.
RunDaemonTest ==
    /\ pc = "test"
    /\ pc' = IF running THEN "idle" ELSE "stopped"
    /\ UNCHANGED <<ctlVars, dbVars, svcVars, pending, cur, cycle, bfVars, obsVars>>

\* run_processing_cycle, lines 1011-1021: articles were fetched, the loop begins.
StartArticles ==
    /\ GetPendingArticles
    /\ pc' = "loop"

\* run_processing_cycle, lines 1011-1015: nothing to process, the cycle returns.
NoPendingArticles ==
    /\ pc = "reloaded"
    /\ PendingProcessing(articles) = <<>>
    /\ pending' = <<>>
    /\ cycle' = [fetched |-> 0, processed |-> 0]
    /\ cur' = IdleCur
    /\ pc' = "wait"
    /\ UNCHANGED <<ctlVars, dbVars, svcVars, bfVars, obsVars>>

\* run_processing_cycle, lines 1021-1024 and 1039: the loop ends when the list
\* is exhausted or, before the next article, when running is false.
LeaveCycle ==
    /\ pc = "loop"
    /\ cur.phase \in {"none", "done"}
    /\ pending = <<>> \/ ~running
    /\ pc' = "wait"
    /\ UNCHANGED <<ctlVars, dbVars, svcVars, pending, cur, cycle, bfVars, obsVars>>

\* run_daemon, lines 1076-1080: 120 waits of one second, left early when
\* running is false.
WaitForNextCycle ==
    /\ pc = "wait"
    /\ pc' = "test"
    /\ UNCHANGED <<ctlVars, dbVars, svcVars, pending, cur, cycle, bfVars, obsVars>>

InitShutdown ==
    /\ topics = <<>>
    /\ events = <<>>
    /\ article_topics = <<>>
    /\ article_events = <<>>
    /\ articles = [ a \in ArticleIds |->
                      [ status |-> "pending", processing_attempts |-> 0,
                        derivative |-> PyNone ] ]
    /\ settings = [ similarity_threshold |-> 70, cluster_threshold |-> 70,
                    prompts |-> [ summary_creation |-> "db",
                                  cluster_detection |-> "db" ] ]
    /\ triggers = {}
    /\ cached_topics = <<>>
    /\ similarity_threshold = DefaultSimilarityThreshold
    /\ cluster_threshold = DefaultClusterThreshold
    /\ prompts = [summary_creation |-> "", cluster_detection |-> ""]
    /\ pc = "test"
    /\ pending = <<>>
    /\ cur = IdleCur
    /\ cycle = [fetched |-> 0, processed |-> 0]
    /\ bf = IdleBf
    /\ started = {}
    /\ faults = MaxFaults
    /\ lastCall = NoCall
    /\ running = TRUE
    /\ api = IdleApi

\* The steps of the main thread.
DaemonStep ==
    \/ RunDaemonTest
    \/ ReloadPrompts
    \/ StartArticles
    \/ NoPendingArticles
    \/ ProcessArticle
    \/ CreateAssociation
    \/ ClusterArticle
    \/ LeaveCycle
    \/ WaitForNextCycle

NextShutdown ==
    \/ RunDaemonTest
    \/ ReloadPrompts
    \/ StartArticles
    \/ NoPendingArticles
    \/ ProcessArticle
    \/ CreateAssociation
    \/ ClusterArticle
    \/ LeaveCycle
    \/ WaitForNextCycle
    \/ SignalHandler
    \/ CreateTopic

\* The main thread is the only one that runs these steps and each of its calls
\* returns, so a step that stays possible is taken.
SpecShutdown == InitShutdown /\ [][NextShutdown]_vars /\ WF_vars(DaemonStep)

\* After the signal no article is started.
NoArticleStartedAfterSignal == [][~running => Len(pending') >= Len(pending)]_vars

\* After the signal no cycle is started (run_processing_cycle begins with
\* reload_prompts).
NoCycleStartedAfterSignal == [][~running => ~(pc = "idle" /\ pc' = "reloaded")]_vars

\* After the signal the article in flight is processed to completion.
InFlightArticleCompletes ==
    \A a \in ArticleIds :
        (~running /\ InFlight(cur) /\ cur.article = a)
            ~> (cur.phase = "done" /\ cur.article = a)

\* After the signal the daemon loop ends.
DaemonTerminates == ~running ~> pc = "stopped"

\* C15: after a shutdown signal the article in flight is processed to completion,
\* no further article is started in that cycle, no new cycle is started, and the
\* daemon loop eventually terminates.
C15_GracefulShutdown ==
    /\ InFlightArticleCompletes
    /\ NoArticleStartedAfterSignal
    /\ NoCycleStartedAfterSignal
    /\ DaemonTerminates

----------------------------------------------------------------------------
(* Embedding of a text (newsfrontier_lib/llm_client.py) and the title       *)
(* embedding built on it                                                      *)

\* A text is told by the number of its leading whitespace characters and the
\* number of characters from its first other character to its end.
MaxChars == 2048

EmbedLeads == {0, 1, MaxChars, MaxChars + 1}

EmbedBodies == {0, 1, MaxChars - 1, MaxChars, MaxChars + 1}

EmbedTexts == [lead : EmbedLeads, body : EmbedBodies]

\* What the provider does when it is called: it answers with a vector, it raises,
\* or the client was never configured (genai_client is None).
EmbedProviders == {"ok", "raises", "unavailable"}

EmbedVec == <<1, 0>>

TextLen(text) == text.lead + text.body

Min(x, y) == IF x <= y THEN x ELSE y

\* not text or not text.strip()
Blank(text) == text.body = 0

\* text[:n]
Prefix(text, n) ==
    [lead |-> Min(text.lead, n), body |-> Min(text.body, n - Min(text.lead, n))]

Truncate_Never(text) == text

\* _generate_embedding_google, lines 109-113.
Truncate(text) ==
    IF TextLen(text) > MaxChars THEN Prefix(text, MaxChars) ELSE text

\* The result of an embedding call: the value returned, whether an exception left
\* the function, and the text the provider received (PyNone when it was not
\* called).
EmbedOut(out, raised, sent) == [out |-> out, raised |-> raised, sent |-> sent]

\* LLMClient._generate_embedding_google: the exception of the provider is caught.
GenerateEmbeddingGoogle(text, provider) ==
    LET sent == Truncate(text)
    IN  IF provider = "raises" THEN EmbedOut(PyNone, FALSE, sent)
        ELSE EmbedOut(EmbedVec, FALSE, sent)

\* LLMClient.generate_embedding.
GenerateEmbedding(text, provider) ==
    IF Blank(text) THEN EmbedOut(PyNone, FALSE, PyNone)
    ELSE IF provider = "unavailable" THEN EmbedOut(PyNone, FALSE, PyNone)
    ELSE GenerateEmbeddingGoogle(text, provider)

\* generate_content_embedding(title, ""): the text is the title.
GenerateContentEmbedding(title, provider) == GenerateEmbedding(title, provider)

\* EmbeddingGenerator.generate_title_embedding and
\* AIPostProcessService.generate_title_embedding: an empty title is answered
\* without a call; a falsy embedding is passed on as None or as it is.
GenerateTitleEmbedding(title, provider) ==
    IF TextLen(title) = 0 THEN EmbedOut(PyNone, FALSE, PyNone)
    ELSE GenerateContentEmbedding(title, provider)

EmbedRecord(impl, text, provider, r) ==
    [ impl |-> impl, text |-> text, provider |-> provider,
      out |-> r.out, raised |-> r.raised, sent |-> r.sent ]

InitEmbed == InitApi

EmbedCall ==
    /\ \E text \in EmbedTexts, provider \in EmbedProviders :
        lastCall' = EmbedRecord("generate_embedding", text, provider,
                                GenerateEmbedding(text, provider))
    /\ UNCHANGED <<dbVars, svcVars, liveVars, bfVars, faults, ctlVars>>

TitleEmbeddingCall ==
    /\ \E title \in EmbedTexts, provider \in EmbedProviders :
        lastCall' = EmbedRecord("generate_title_embedding", title, provider,
                                GenerateTitleEmbedding(title, provider))
    /\ UNCHANGED <<dbVars, svcVars, liveVars, bfVars, faults, ctlVars>>

NextEmbed == EmbedCall \/ TitleEmbeddingCall

SpecEmbed == InitEmbed /\ [][NextEmbed]_vars

IsEmbed ==
    lastCall # NoCall /\ lastCall.impl \in {"generate_embedding", "generate_title_embedding"}

\* C21: an embedding call raises nothing; it returns None when the text is empty
\* after trimming or the provider fails; and the provider receives the text
\* itself when it has at most MaxChars characters and its first MaxChars
\* characters otherwise.
C21_EmbedNullAndTruncation ==
    IsEmbed =>
        /\ ~lastCall.raised
        /\ (Blank(lastCall.text) \/ lastCall.provider # "ok") => IsNone(lastCall.out)
        /\ ~IsNone(lastCall.sent) =>
              /\ TextLen(lastCall.sent) <= MaxChars
              /\ lastCall.sent = Prefix(lastCall.text, MaxChars)
              /\ TextLen(lastCall.text) <= MaxChars => lastCall.sent = lastCall.text
              /\ TextLen(lastCall.text) > MaxChars => TextLen(lastCall.sent) = MaxChars

C21_Witness ==
    /\ IsEmbed
    /\ TextLen(lastCall.text) > MaxChars
    /\ lastCall.provider = "ok"
    /\ ~IsNone(lastCall.sent)
    /\ TextLen(lastCall.sent) = MaxChars
    /\ lastCall.out = EmbedVec

----------------------------------------------------------------------------
(* Changes of the configuration between processing cycles                    *)

\* The values an administrator gives to the two thresholds and to a template.
ThresholdValues == {50, 70}

TemplateValues == {"db", "db2"}

PromptTypes == {"summary_creation", "cluster_detection"}

\* backend update_system_settings: one setting is stored.  lastCall keeps the
\* key and the value of the latest change.
ChangeSetting ==
    /\ \/ \E v \in ThresholdValues :
            /\ settings' = [settings EXCEPT !.similarity_threshold = v]
            /\ lastCall' = [impl |-> "change", key |-> "similarity_threshold", value |-> v]
       \/ \E v \in ThresholdValues :
            /\ settings' = [settings EXCEPT !.cluster_threshold = v]
            /\ lastCall' = [impl |-> "change", key |-> "cluster_threshold", value |-> v]
       \/ \E k \in PromptTypes, v \in TemplateValues :
            /\ settings' = [settings EXCEPT !.prompts[k] = v]
            /\ lastCall' = [impl |-> "change", key |-> k, value |-> v]
    /\ settings' # settings
    /\ UNCHANGED <<ctlVars, topics, events, article_topics, article_events, articles,
                   triggers, svcVars, liveVars, bfVars, faults>>

InitReload == Init

NextReload ==
    \/ ReloadPrompts
    \/ GetPendingArticles
    \/ ProcessArticle
    \/ EndCycle
    \/ ChangeSetting

SpecReload == InitReload /\ [][NextReload]_vars

\* The value of a setting the service works with.
InForce(key, sim, clu, pr) ==
    IF key = "similarity_threshold" THEN sim
    ELSE IF key = "cluster_threshold" THEN clu
    ELSE PromptsGet(pr, key)

\* A cycle starts and the configuration collaborator answers all its requests.
CycleStartsUnfailed == pc = "idle" /\ pc' = "reloaded" /\ faults' = faults

\* C22: the latest change of similarity_threshold, cluster_threshold or a prompt
\* template is in force in every cycle that starts after it (the first one
\* included), the process never being restarted.
C22_ChangeInEffectNextCycle ==
    [][ (CycleStartsUnfailed /\ lastCall.impl = "change") =>
            InForce(lastCall.key, similarity_threshold', cluster_threshold', prompts')
                = lastCall.value ]_vars

----------------------------------------------------------------------------
(* Two runs of the matching and clustering stages on the same inputs with    *)
(* different thresholds                                                       *)

IndepThresholds == {50, 70}

\* The threshold of topic matching: find_similar_topics (lines 366-367) and
\* process_new_topic (line 620) take self.similarity_threshold.
TopicStageThreshold(sim, clu) == sim

ClusterStageThreshold_Shared(sim, clu) == sim

\* The threshold of the numeric clustering stage: detect_or_create_cluster
\* (line 734) takes self.cluster_threshold.
ClusterStageThreshold(sim, clu) == clu

\* Collaborators that do not fail.
EnvOk == [fetch_ok |-> TRUE, response |-> "ok", create_ok |-> TRUE, embedding |-> <<4, 3>>]

\* What one run with the thresholds (sim, clu) decides for an article: the topics
\* of the live match with their scores, for each stored topic whether its
\* backfill pass associates the article, and for the first topic whether and to
\* which event the numeric clustering stage assigns it.
Decisions(sim, clu, title_embedding, summary_embedding) ==
    LET out == DetectOrCreateCluster(events, 1, 1, title_embedding, summary_embedding,
                   ClusterStageThreshold(sim, clu),
                   PromptsGet(prompts, "cluster_detection"), EnvOk)
    IN  [ live |-> FindSimilarTopics(title_embedding, summary_embedding, cached_topics,
                                     TopicStageThreshold(sim, clu)),
          backfill |-> [ t \in DOMAIN topics |->
                           /\ Truthy(topics[t].topic_vector)
                           /\ ScoreOf(title_embedding, summary_embedding,
                                      topics[t].topic_vector)
                                >= TopicStageThreshold(sim, clu) ],
          direct |-> IF out.found THEN out.result.id ELSE 0 ]

\* Topics and events are stored and the snapshot is loaded.
InitIndep ==
    /\ topics \in { t \in [1..MaxTopics -> [ id : 1..MaxTopics, user_id : UserIds,
                                             topic_vector : TopicVecs ]] :
                      \A k \in DOMAIN t : t[k].id = k }
    /\ events \in { e \in UNION { [1..n -> [ id : 1..MaxEvents, user_id : UserIds,
                                             topic_id : {1},
                                             event_embedding : TopicVecs ]] :
                                  n \in 0..MaxEvents } :
                      \A k \in DOMAIN e : e[k].id = k }
    /\ cached_topics = GetAllTopicsInternal(topics)
    /\ article_topics = <<>>
    /\ article_events = <<>>
    /\ articles = [ a \in ArticleIds |->
                      [ status |-> "pending", processing_attempts |-> 0,
                        derivative |-> PyNone ] ]
    /\ settings = [ similarity_threshold |-> 70, cluster_threshold |-> 70,
                    prompts |-> [ summary_creation |-> "db",
                                  cluster_detection |-> "db" ] ]
    /\ triggers = {}
    /\ similarity_threshold = DefaultSimilarityThreshold
    /\ cluster_threshold = DefaultClusterThreshold
    /\ prompts = [summary_creation |-> "db", cluster_detection |-> "db"]
    /\ pc = "idle"
    /\ pending = <<>>
    /\ cur = IdleCur
    /\ cycle = [fetched |-> 0, processed |-> 0]
    /\ bf = IdleBf
    /\ started = {}
    /\ faults = 0
    /\ lastCall = NoCall
    /\ running = TRUE
    /\ api = IdleApi

PairRecord(title_embedding, summary_embedding, sim1, clu1, sim2, clu2) ==
    [ impl |-> "pair", title_embedding |-> title_embedding,
      summary_embedding |-> summary_embedding,
      sim1 |-> sim1, clu1 |-> clu1, sim2 |-> sim2, clu2 |-> clu2,
      run1 |-> Decisions(sim1, clu1, title_embedding, summary_embedding),
      run2 |-> Decisions(sim2, clu2, title_embedding, summary_embedding) ]

\* Two runs that differ only in cluster_threshold.
RunsDifferInClusterThreshold ==
    /\ \E title_embedding \in TitleVecs \cup {NoVec},
          summary_embedding \in SummaryVecs \cup {NoVec},
          sim \in IndepThresholds, clu1 \in IndepThresholds, clu2 \in IndepThresholds :
        /\ Truthy(title_embedding) \/ Truthy(summary_embedding)
        /\ clu1 < clu2
        /\ lastCall' = PairRecord(title_embedding, summary_embedding, sim, clu1, sim, clu2)
    /\ UNCHANGED <<dbVars, svcVars, liveVars, bfVars, faults, ctlVars>>

\* Two runs that differ only in similarity_threshold.
RunsDifferInSimilarityThreshold ==
    /\ \E title_embedding \in TitleVecs \cup {NoVec},
          summary_embedding \in SummaryVecs \cup {NoVec},
          clu \in IndepThresholds, sim1 \in IndepThresholds, sim2 \in IndepThresholds :
        /\ Truthy(title_embedding) \/ Truthy(summary_embedding)
        /\ sim1 < sim2
        /\ lastCall' = PairRecord(title_embedding, summary_embedding, sim1, clu, sim2, clu)
    /\ UNCHANGED <<dbVars, svcVars, liveVars, bfVars, faults, ctlVars>>

NextIndep == RunsDifferInClusterThreshold \/ RunsDifferInSimilarityThreshold

SpecIndep == InitIndep /\ [][NextIndep]_vars

----------------------------------------------------------------------------
(* The scores of the stored associations (Spec) *)

Last(s) == s[Len(s)]

ScoresInRange ==
    /\ \A k \in 1..Len(article_topics) :
          article_topics[k].relevance_score >= 0 /\ article_topics[k].relevance_score <= 100
    /\ \A k \in 1..Len(article_events) :
          article_events[k].relevance_score >= 0 /\ article_events[k].relevance_score <= 100

\* A stored topic association carries the similarity the article was matched
\* with: in live processing that of the vectors just computed, in a backfill pass
\* that of the stored vectors.
TopicScoreIsMatchedSimilarity ==
    article_topics' # article_topics =>
        LET r == Last(article_topics')
        IN  IF cur' # cur
            THEN r.relevance_score =
                     ScoreOf(cur.title_embedding, cur.summary_embedding,
                             topics[r.topic_id].topic_vector)
            ELSE r.relevance_score =
                     ScoreOf(articles[r.rss_item_id].derivative.title_embedding,
                             articles[r.rss_item_id].derivative.summary_embedding,
                             bf.topic_embedding)

\* A stored event association carries 1.0 when the event was created by the
\* attempt and the matched similarity when the event existed.
EventScoreIsSimilarityOrOne ==
    article_events' # article_events =>
        LET r == Last(article_events')
        IN  IF Len(events') > Len(events)
            THEN r.event_id = Len(events') /\ r.relevance_score = 100
            ELSE r.relevance_score =
                     IF lastCall'.impl = "live"
                     THEN ScoreOf(cur.title_embedding, cur.summary_embedding,
                                  events[r.event_id].event_embedding)
                     ELSE ScoreOf(bf.title_embedding, bf.summary_embedding,
                                  events[r.event_id].event_embedding)

\* C24: every stored article-topic and article-event association has a
\* relevance_score in [0,1]; it is the matched similarity for a topic association
\* and for a direct assignment, and 1.0 for an event the reasoning path created.
C24_RelevanceScoreInRange ==
    /\ [](ScoresInRange)
    /\ [][TopicScoreIsMatchedSimilarity /\ EventScoreIsSimilarityOrOne]_vars

C24_Witness ==
    /\ article_topics # <<>>
    /\ \E k \in 1..Len(article_events) : article_events[k].relevance_score = 100
    /\ \E k \in 1..Len(article_events) : article_events[k].relevance_score < 100

----------------------------------------------------------------------------
(* Topics of two owners, stored before the service looks at them            *)

OwnerIds == {1, 2}

\* Two users have created one topic each; the triggers of both are pending.
InitOwner ==
    /\ topics = << [id |-> 1, user_id |-> 1, topic_vector |-> <<4, 3>>],
                   [id |-> 2, user_id |-> 2, topic_vector |-> <<3, 4>>] >>
    /\ triggers = {1, 2}
    /\ events = <<>>
    /\ article_topics = <<>>
    /\ article_events = <<>>
    /\ articles = [ a \in ArticleIds |->
                      [ status |-> "pending", processing_attempts |-> 0,
                        derivative |-> PyNone ] ]
    /\ settings = [ similarity_threshold |-> 70, cluster_threshold |-> 70,
                    prompts |-> [ summary_creation |-> "db",
                                  cluster_detection |-> "db" ] ]
    /\ cached_topics = <<>>
    /\ similarity_threshold = DefaultSimilarityThreshold
    /\ cluster_threshold = DefaultClusterThreshold
    /\ prompts = [summary_creation |-> "", cluster_detection |-> ""]
    /\ pc = "idle"
    /\ pending = <<>>
    /\ cur = IdleCur
    /\ cycle = [fetched |-> 0, processed |-> 0]
    /\ bf = IdleBf
    /\ started = {}
    /\ faults = 0
    /\ lastCall = NoCall
    /\ running = TRUE
    /\ api = IdleApi

NextOwner ==
    \/ ReloadPrompts
    \/ GetPendingArticles
    \/ ProcessArticle
    \/ CreateAssociation
    \/ ClusterArticle
    \/ EndCycle
    \/ TriggerFails
    \/ ProcessNewTopic
    \/ BackfillArticle
    \/ BackfillCluster

SpecOwner == InitOwner /\ [][NextOwner]_vars

\* Every event has one topic, which is stored, and the owner of that topic.
EventsHaveOneTopic ==
    \A k \in 1..Len(events) :
        /\ events[k].topic_id \in DOMAIN topics
        /\ events[k].user_id = topics[events[k].topic_id].user_id

\* An association stored by a clustering attempt refers to an event of the
\* attempt's topic and of the owner the attempt was made for.
AssociationWithinTopic ==
    article_events' # article_events =>
        LET r == Last(article_events')
            e == events'[r.event_id]
        IN  /\ e.topic_id = lastCall'.topic_id
            /\ e.user_id = IF lastCall'.impl = "live"
                           THEN cur.similar_topics[cur.i].user_id
                           ELSE bf.user_id

\* C25: every event belongs to exactly one topic, and every article-event
\* association created while clustering an article for topic T refers to an event
\* whose topic_id is T and whose owner is the owner of the clustering call.
C25_AssociationStaysInTopic ==
    /\ [](EventsHaveOneTopic)
    /\ [][AssociationWithinTopic]_vars

\* Both owners have an event, and an article is associated with events of both.
C25_Witness ==
    /\ \E k \in 1..Len(events) : events[k].user_id = 1
    /\ \E k \in 1..Len(events) : events[k].user_id = 2
    /\ \E a \in ArticleIds :
          \A u \in OwnerIds :
              \E k \in 1..Len(article_events) :
                  /\ article_events[k].rss_item_id = a
                  /\ events[article_events[k].event_id].user_id = u

----------------------------------------------------------------------------
(* A topic created while a cycle is running (Spec) *)

\* Nothing is left to do: no cycle and no backfill pass is running, no trigger
\* is waiting and no article is pending.
Quiescent ==
    /\ pc = "idle"
    /\ bf.pc = "idle"
    /\ triggers = {}
    /\ PendingProcessing(articles) = <<>>

\* C26: in a run without failures, whatever the interleaving of a topic creation
\* (with its backfill pass) and a live cycle, once nothing is left to do every
\* article whose score against a topic is at least similarity_threshold has an
\* association with that topic.
C26_NoArticleMissedByBoth ==
    (Quiescent /\ faults = 0) =>
        \A a \in ArticleIds, t \in DOMAIN topics :
            ( /\ articles[a].status = "completed"
              /\ Truthy(topics[t].topic_vector)
              /\ LiveTopicMatch(a, t, settings.similarity_threshold) # <<>> )
            => ArticleTopicExists(article_topics, a, t)

----------------------------------------------------------------------------
(* Events per (article, topic) pair (Spec) *)

\* The rows that associate article a with an event of topic t.
EventRowsOfPair(rows, a, t) ==
    { k \in 1..Len(rows) : rows[k].rss_item_id = a /\ events[rows[k].event_id].topic_id = t }

AtMostOneEventPerPair ==
    \A a \in ArticleIds, t \in 1..MaxTopics :
        Cardinality(EventRowsOfPair(article_events, a, t)) <= 1

\* An attempt creates an event for a pair only when the article is not yet
\* associated with an event of the topic.
CreatesOnlyForUnclusteredPair ==
    (IsAttempt' /\ Len(events') > Len(events)) =>
        EventRowsOfPair(article_events, lastCall'.article, lastCall'.topic_id) = {}

\* C27: for each (article, topic) pair the reasoning path creates at most one
\* event and the article is associated with at most one event of the topic,
\* whatever the cycles, the retries and the interleaving of a live cycle with a
\* backfill pass.
C27_OneEventPerArticleAndTopic ==
    /\ [](AtMostOneEventPerPair)
    /\ [][CreatesOnlyForUnclusteredPair]_vars

----------------------------------------------------------------------------
(* Event associations and topic associations (Spec) *)

\* C28: whenever an article-event association links an article to an event of
\* topic T, the article-topic association (article, T) is stored: clustering for
\* the pair is attempted only after that association was stored successfully.
C28_EventAssociationImpliesTopicAssociation ==
    \A k \in 1..Len(article_events) :
        ArticleTopicExists(article_topics, article_events[k].rss_item_id,
                           events[article_events[k].event_id].topic_id)

----------------------------------------------------------------------------
(* How often an article is processed (Spec) *)

\* A step of the daemon that processes the next article of its list.
IsProcessingAttempt == pc = "loop" /\ pending # <<>> /\ pending' = Tail(pending)

\* An attempt that does not leave the article completed is counted.
AttemptCounted ==
    IsProcessingAttempt =>
        LET a == Head(pending)
        IN  articles'[a].status # "completed" =>
                articles'[a].processing_attempts = articles[a].processing_attempts + 1

\* The articles a cycle is offered are not completed and have fewer than
\* MaxAttempts recorded attempts.
OfferedOnlyBelowLimit ==
    (pc = "reloaded" /\ pc' # "reloaded") =>
        \A k \in 1..Len(pending') :
            /\ articles[pending'[k]].status # "completed"
            /\ articles[pending'[k]].processing_attempts < MaxAttempts

\* C29: an article is offered for processing only while it is not completed and
\* its recorded attempt count is below 5, and every processing attempt that does
\* not complete increases that count, so every article is processed a bounded
\* number of times.
C29_BoundedProcessingAttempts ==
    [][AttemptCounted /\ OfferedOnlyBelowLimit]_vars

----------------------------------------------------------------------------
(* The two implementations of the clustering procedure side by side          *)
(* (SpecCluster)                                                              *)

\* The collaborators' behaviours that agree with what the call met.
EnvsOfCall(c) ==
    { env \in Envs : /\ env.fetch_ok = c.fetch_ok
                     /\ env.response = c.response
                     /\ env.create_ok = c.create_ok }

\* C30: for the same existing events, article vectors, cluster_threshold,
\* prompts and collaborator behaviour, AIPostProcessService.detect_or_create_cluster
\* and ClusteringService.detect_or_create_cluster return the same event or None,
\* with the same relevance_score, after the same reasoning calls and the same
\* event creations.
C30_ImplementationsEquivalent ==
    lastCall # NoCall =>
        \A env \in EnvsOfCall(lastCall) :
            LET before == SubSeq(events, 1, lastCall.before)
                m == DetectOrCreateCluster(before, lastCall.user_id, lastCall.topic_id,
                         lastCall.title_embedding, lastCall.summary_embedding,
                         lastCall.threshold, PromptsGet(prompts, "cluster_detection"), env)
                s == ServiceDetectOrCreateCluster(before, lastCall.user_id,
                         lastCall.topic_id, lastCall.title_embedding,
                         lastCall.summary_embedding, lastCall.threshold, prompts, env)
            IN  /\ m.result = s.result
                /\ m.raised = s.raised
                /\ m.llm_calls = s.llm_calls
                /\ m.created = s.created

====
